---- MODULE Spec2Model ----
(***************************************************************************)
(* Verification model of the Sui-Circle frontend services:                 *)
(*   - AccessControlService.validateAccessRule / parseBulkData             *)
(*   - SealEncryptionService (initialize / encryptFile / decryptFile)      *)
(*   - FileService (getUserFiles / uploadFile / clearUserFiles / deleteFile)*)
(*   - FileUpload.uploadSingleFile                                         *)
(* Strings are sequences of one-character strings; optional JavaScript     *)
(* values are records [set, v] so that "undefined" and 0 stay distinct.    *)
(***************************************************************************)
EXTENDS Integers, Sequences, FiniteSets, TLC

VARIABLES
  rule,        \* the AccessControlRule handed to validateAccessRule
  validation   \* what validateAccessRule returned for it

ruleVars == <<rule, validation>>

VARIABLES
  content,     \* the text handed to parseBulkData
  parsed       \* the ParsedBulkData it returned

bulkVars == <<content, parsed>>

VARIABLES
  isInitialized,          \* SealEncryptionService.isInitialized
  initializationPromise,  \* "null", "pending" or "fulfilled"
  SealLibrary,            \* "null", "seal" (the imported module) or "mock"
  initStarts,             \* how many times _initializeSeal was entered
  inFlight,               \* _initializeSeal runs waiting for their import
  pc,                     \* where each caller of the adapter is
  op,                     \* the method each caller called last
  file,                   \* the bytes of the File each caller holds
  input,                  \* the arguments of each caller's decryptFile call
  result                  \* what each caller's last call returned

sealVars == <<isInitialized, initializationPromise, SealLibrary, initStarts, inFlight,
              pc, op, file, input, result>>

VARIABLES
  fsPc,        \* a FileService call: "idle", "fetching" (awaiting fetch) or "done"
  fsCall,      \* the method called and its arguments
  fsSent,      \* the requests the call handed to fetch
  fsResponse,  \* what the awaited fetch settled with
  fsResult     \* what the call returned

fileVars == <<fsPc, fsCall, fsSent, fsResponse, fsResult>>

VARIABLES
  useTestMode,       \* AuthContext.useTestMode
  token,             \* AuthContext.token
  user,              \* AuthContext.user is set
  hookInitializing,  \* useSealEncryption state.isInitializing
  hookReady,         \* useSealEncryption state.isReady
  attachedFiles,     \* FileUpload's attachedFiles
  globalUploading,   \* FileUpload's globalUploading
  clock,             \* the last value Date.now() gave to addFilesToAttached
  run,               \* the handleUploadAll invocation and what its closure holds
  calls              \* the uploadSingleFile invocations of that run, latest last

uploadVars == <<useTestMode, token, user, hookInitializing, hookReady, attachedFiles,
                globalUploading, clock, run, calls>>

VARIABLES
  authService,     \* the AuthService singleton: its token and user
  localStorage,    \* the items authToken, authUser and useTestMode
  sessionStorage,  \* the item zkLoginParams
  mounted,         \* AuthProvider's mount effect has run
  pending,         \* the AuthService calls that wait for their fetch
  lastOp           \* the operation that ran last

authVars == <<authService, localStorage, sessionStorage, mounted, pending, lastOp>>

VARIABLES
  viewer,      \* SharedFileViewer: its state and the dependencies of its effect
  flows,       \* its validateShareLink and loadFileContent invocations
  validated,   \* accessControlService.validateShareLink has returned success
  granted,     \* the accessGranted of its last successful result
  downloads    \* the downloadSharedFile requests sent

viewerVars == <<viewer, flows, validated, granted, downloads>>

VARIABLES
  forms,       \* the AccessControlConfig component of each client
  acSent,      \* the access-control requests the clients handed to fetch
  http         \* one service call: the method, what fetch gave it, what it returned

accessVars == <<forms, acSent, http>>

vars == <<ruleVars, bulkVars, sealVars, fileVars, uploadVars, authVars, viewerVars, accessVars>>
\* what the encryption adapter leaves alone
notSeal == <<ruleVars, bulkVars, fileVars, uploadVars, authVars, viewerVars, accessVars>>

(***************************************************************************)
(* Bounds                                                                  *)
(***************************************************************************)
\* largest epoch-millisecond value drawn for accessStartTime / accessEndTime
MaxTime == 2
\* number of tokens and separators a bulk text is made of
MaxPieces == 4
\* length of the files handed to encryptFile
MaxLen == 3
\* callers that use the one encryption adapter at the same time
NumCallers == 2

(***************************************************************************)
(* Characters and strings                                                  *)
(***************************************************************************)
Lower == {"a","b","c","d","e","f","g","h","i","j","k","l","m",
          "n","o","p","q","r","s","t","u","v","w","x","y","z"}
Upper == {"A","B","C","D","E","F","G","H","I","J","K","L","M",
          "N","O","P","Q","R","S","T","U","V","W","X","Y","Z"}
Digit == {"0","1","2","3","4","5","6","7","8","9"}
AlNum == Lower \cup Upper \cup Digit
HexChar == Digit \cup {"a","b","c","d","e","f","A","B","C","D","E","F"}
\* the characters matched by \s among those the model draws
WhiteSpace == {" ", "\t", "\n", "\r"}

Rep(c, n) == [i \in 1..n |-> c]

Min(S) == CHOOSE x \in S : \A y \in S : x <= y
Max(S) == CHOOSE x \in S : \A y \in S : x >= y

\* String.prototype.trim: drop leading and trailing white space
Trim(s) ==
  LET keep == {i \in 1..Len(s) : s[i] \notin WhiteSpace}
  IN  IF keep = {} THEN <<>> ELSE SubSeq(s, Min(keep), Max(keep))

\* String.prototype.split on a one-character separator
RECURSIVE SplitFrom(_, _, _)
SplitFrom(s, sep, start) ==
  LET at == {i \in start..Len(s) : s[i] = sep}
  IN  IF at = {} THEN <<SubSeq(s, start, Len(s))>>
      ELSE <<SubSeq(s, start, Min(at) - 1)>> \o SplitFrom(s, sep, Min(at) + 1)
Split(s, sep) == SplitFrom(s, sep, 1)

\* Array.prototype.includes
Includes(list, x) == \E i \in 1..Len(list) : list[i] = x

(***************************************************************************)
(* Validators                                                              *)
(***************************************************************************)
\* /^[^\s@]+@[^\s@]+\.[^\s@]+$/ : one "@", no white space, a non-empty
\* local part, and a "." inside the domain with a character on both sides
isValidEmail(s) ==
  \E i \in 1..Len(s) :
     /\ s[i] = "@"
     /\ i > 1
     /\ \A k \in 1..Len(s) : s[k] \notin WhiteSpace /\ (s[k] = "@" => k = i)
     /\ \E j \in (i + 2)..(Len(s) - 1) : s[j] = "."

\* /^[a-zA-Z0-9][a-zA-Z0-9-]*[a-zA-Z0-9]\.sui$/ and 4 <= length <= 64
suiNSRegex(s) ==
  /\ Len(s) >= 6
  /\ SubSeq(s, Len(s) - 3, Len(s)) = <<".", "s", "u", "i">>
  /\ s[1] \in AlNum
  /\ s[Len(s) - 4] \in AlNum
  /\ \A k \in 2..(Len(s) - 5) : s[k] \in AlNum \cup {"-"}
\* variant: the upper length bound is missing
isValidSuiNS_NoUpperBound(s) == suiNSRegex(s) /\ Len(s) >= 4
isValidSuiNS(s) == suiNSRegex(s) /\ Len(s) >= 4 /\ Len(s) <= 64

\* @mysten/sui/utils: isHex(value) && getHexByteLength(value) === 32
SUI_ADDRESS_LENGTH == 32
HasHexPrefix(s) == Len(s) >= 2 /\ s[1] = "0" /\ s[2] \in {"x", "X"}
isHex(s) ==
  LET body == IF HasHexPrefix(s) THEN SubSeq(s, 3, Len(s)) ELSE s
  IN  /\ Len(body) >= 1
      /\ \A k \in 1..Len(body) : body[k] \in HexChar
      /\ Len(s) % 2 = 0
getHexByteLength(s) == IF HasHexPrefix(s) THEN (Len(s) - 2) \div 2 ELSE Len(s) \div 2
isValidSuiAddress(s) == isHex(s) /\ getHexByteLength(s) = SUI_ADDRESS_LENGTH

(***************************************************************************)
(* Text encoding and JSON, as the encryption envelope uses them            *)
(***************************************************************************)
LowerSeq == <<"a","b","c","d","e","f","g","h","i","j","k","l","m",
              "n","o","p","q","r","s","t","u","v","w","x","y","z">>
UpperSeq == <<"A","B","C","D","E","F","G","H","I","J","K","L","M",
              "N","O","P","Q","R","S","T","U","V","W","X","Y","Z">>
DigitSeq == <<"0","1","2","3","4","5","6","7","8","9">>
\* <<character, ASCII code>> of the punctuation the envelope contains
Punctuation ==
  { <<" ", 32>>, <<"\"", 34>>, <<",", 44>>, <<"-", 45>>, <<".", 46>>, <<":", 58>>,
    <<"@", 64>>, <<"[", 91>>, <<"]", 93>>, <<"_", 95>>, <<"{", 123>>, <<"}", 125>> }
\* the character that stands for every byte or byte group outside the table
\* (control characters, U+FFFD of an invalid UTF-8 sequence)
OtherChar == "?"

IndexIn(seq, c) == CHOOSE i \in 1..Len(seq) : seq[i] = c
\* TextEncoder.encode of an ASCII string: one byte per character
CodeOf(c) ==
  IF c \in Lower THEN 96 + IndexIn(LowerSeq, c)
  ELSE IF c \in Upper THEN 64 + IndexIn(UpperSeq, c)
  ELSE IF c \in Digit THEN 47 + IndexIn(DigitSeq, c)
  ELSE IF \E pair \in Punctuation : pair[1] = c
    THEN (CHOOSE pair \in Punctuation : pair[1] = c)[2]
  ELSE 63
TextEncode(str) == [i \in 1..Len(str) |-> CodeOf(str[i])]
\* TextDecoder.decode, byte by byte
CharOf(b) ==
  IF b \in 97..122 THEN LowerSeq[b - 96]
  ELSE IF b \in 65..90 THEN UpperSeq[b - 64]
  ELSE IF b \in 48..57 THEN DigitSeq[b - 47]
  ELSE IF \E pair \in Punctuation : pair[2] = b
    THEN (CHOOSE pair \in Punctuation : pair[2] = b)[1]
  ELSE OtherChar
TextDecode(bytes) == [i \in 1..Len(bytes) |-> CharOf(bytes[i])]

\* JSON.stringify of a non-negative integer
RECURSIVE DigitsOf(_)
DigitsOf(n) ==
  IF n < 10 THEN <<DigitSeq[n + 1]>>
  ELSE Append(DigitsOf(n \div 10), DigitSeq[(n % 10) + 1])
\* JSON.stringify of a string without characters that need escaping
JsonString(str) == <<"\"">> \o str \o <<"\"">>
\* JSON.stringify of an array of non-negative integers
RECURSIVE JoinNumbers(_, _)
JoinNumbers(nums, i) ==
  IF i > Len(nums) THEN <<>>
  ELSE (IF i > 1 THEN <<",">> ELSE <<>>) \o DigitsOf(nums[i]) \o JoinNumbers(nums, i + 1)
JsonNumberArray(nums) == <<"[">> \o JoinNumbers(nums, 1) \o <<"]">>

\* JSON values: [t |-> "num", v |-> n], [t |-> "str", v |-> chars],
\* [t |-> "arr", v |-> values], [t |-> "obj", v |-> <<key, value>> pairs],
\* [t |-> "null", v |-> 0]
JNull == [t |-> "null", v |-> 0]
ParseError == [ok |-> FALSE, val |-> JNull, pos |-> 0]
ParseOk(val, pos) == [ok |-> TRUE, val |-> val, pos |-> pos]

RECURSIVE NumberValue(_, _, _)
NumberValue(text, i, j) ==
  IF j < i THEN 0
  ELSE 10 * NumberValue(text, i, j - 1) + (IndexIn(DigitSeq, text[j]) - 1)
\* a JSON number: digits, no leading zero before another digit
ParseNumber(text, i) ==
  LET stops == {k \in i..Len(text) : text[k] \notin Digit}
      end == IF stops = {} THEN Len(text) ELSE Min(stops) - 1
  IN  IF text[i] = "0" /\ end > i THEN ParseError
      ELSE ParseOk([t |-> "num", v |-> NumberValue(text, i, end)], end + 1)
\* a JSON string: up to the next quote (the model draws no escapes)
ParseStringAt(text, i) ==
  LET quotes == {k \in (i + 1)..Len(text) : text[k] = "\""}
  IN  IF quotes = {} \/ \E k \in (i + 1)..(Min(quotes) - 1) : text[k] = OtherChar
        THEN ParseError
      ELSE ParseOk([t |-> "str", v |-> SubSeq(text, i + 1, Min(quotes) - 1)],
                   Min(quotes) + 1)
IsLiteralNull(text, i) ==
  i + 3 <= Len(text) /\ SubSeq(text, i, i + 3) = <<"n", "u", "l", "l">>

RECURSIVE ParseValue(_, _)
RECURSIVE ParseElements(_, _, _)
RECURSIVE ParseMembers(_, _, _)
ParseValue(text, i) ==
  IF i > Len(text) THEN ParseError
  ELSE IF text[i] \in Digit THEN ParseNumber(text, i)
  ELSE IF text[i] = "\"" THEN ParseStringAt(text, i)
  ELSE IF IsLiteralNull(text, i) THEN ParseOk(JNull, i + 4)
  ELSE IF text[i] = "["
    THEN IF i + 1 <= Len(text) /\ text[i + 1] = "]"
           THEN ParseOk([t |-> "arr", v |-> <<>>], i + 2)
         ELSE ParseElements(text, i + 1, <<>>)
  ELSE IF text[i] = "{"
    THEN IF i + 1 <= Len(text) /\ text[i + 1] = "}"
           THEN ParseOk([t |-> "obj", v |-> <<>>], i + 2)
         ELSE ParseMembers(text, i + 1, <<>>)
  ELSE ParseError
\* the elements of an array, from the one at i, up to the closing bracket
ParseElements(text, i, acc) ==
  LET e == ParseValue(text, i)
  IN  IF ~e.ok \/ e.pos > Len(text) THEN ParseError
      ELSE IF text[e.pos] = "]"
        THEN ParseOk([t |-> "arr", v |-> Append(acc, e.val)], e.pos + 1)
      ELSE IF text[e.pos] = ","
        THEN ParseElements(text, e.pos + 1, Append(acc, e.val))
      ELSE ParseError
\* the members of an object, from the one at i, up to the closing brace
ParseMembers(text, i, acc) ==
  IF i > Len(text) \/ text[i] # "\"" THEN ParseError
  ELSE LET k == ParseStringAt(text, i)
       IN  IF ~k.ok \/ k.pos > Len(text) \/ text[k.pos] # ":" THEN ParseError
           ELSE LET m == ParseValue(text, k.pos + 1)
                IN  IF ~m.ok \/ m.pos > Len(text) THEN ParseError
                    ELSE IF text[m.pos] = "}"
                      THEN ParseOk([t |-> "obj", v |-> Append(acc, <<k.val.v, m.val>>)],
                                   m.pos + 1)
                    ELSE IF text[m.pos] = ","
                      THEN ParseMembers(text, m.pos + 1, Append(acc, <<k.val.v, m.val>>))
                    ELSE ParseError
\* JSON.parse: the whole text is one value, else a SyntaxError (ok = FALSE)
JsonParse(text) ==
  LET r == ParseValue(text, 1)
  IN  IF r.ok /\ r.pos = Len(text) + 1 THEN r ELSE ParseError

(***************************************************************************)
(* AccessControlService.validateAccessRule                                 *)
(***************************************************************************)
\* an optional field: set = FALSE is JavaScript's undefined
Undefined == [set |-> FALSE, v |-> 0]
Some(x) == [set |-> TRUE, v |-> x]
UndefinedList == [set |-> FALSE, v |-> <<>>]
\* truthiness of an optional number: undefined and 0 are both falsy
Truthy(x) == x.set /\ x.v # 0
\* `list && list.length > 0`
NonEmptyList(l) == l.set /\ Len(l.v) > 0

ConditionTypes == {"email", "wallet", "time", "hybrid"}

NoError == [kind |-> "none", arg |-> <<>>]
Invalid(kind, arg) == [valid |-> FALSE, error |-> [kind |-> kind, arg |-> arg]]
Valid == [valid |-> TRUE, error |-> NoError]

\* index of the first element a `for ... of` loop returns on, 0 if none;
\* bad[i] tells whether element i fails its validator
RECURSIVE FirstFrom(_, _)
FirstFrom(bad, i) ==
  IF i > Len(bad) THEN 0
  ELSE IF bad[i] THEN i
  ELSE FirstFrom(bad, i + 1)
FirstBad(bad) == FirstFrom(bad, 1)

BadEmail(e) == ~isValidEmail(e)
BadAddress(a) == ~isValidSuiAddress(a)
BadSuiNS(n) == ~isValidSuiNS(n)
FirstBadEmail(list) == FirstBad([i \in 1..Len(list) |-> BadEmail(list[i])])
FirstBadAddress(list) == FirstBad([i \in 1..Len(list) |-> BadAddress(list[i])])
FirstBadSuiNS(list) == FirstBad([i \in 1..Len(list) |-> BadSuiNS(list[i])])

TimeOrderCheck(r) ==
  Truthy(r.accessStartTime) /\ Truthy(r.accessEndTime)
    /\ r.accessStartTime.v >= r.accessEndTime.v
DurationCheck(r) == Truthy(r.maxAccessDuration) /\ r.maxAccessDuration.v <= 0
CountCheck(r) == Truthy(r.maxAccessCount) /\ r.maxAccessCount.v <= 0
HybridCheck(r) ==
  /\ r.conditionType = "hybrid"
  /\ LET hasEmail == NonEmptyList(r.allowedEmails)
         hasAddress == NonEmptyList(r.allowedAddresses)
         hasTime == Truthy(r.accessStartTime) \/ Truthy(r.accessEndTime)
                      \/ Truthy(r.maxAccessDuration)
     IN  ~hasEmail /\ ~hasAddress /\ ~hasTime

\* variant: the limits are checked before the lists
validateAccessRule_LimitsFirst(r) ==
  IF r.conditionType \notin ConditionTypes
    THEN Invalid("Invalid condition type", <<>>)
  ELSE IF DurationCheck(r)
    THEN Invalid("Max access duration must be positive", <<>>)
  ELSE IF CountCheck(r)
    THEN Invalid("Max access count must be positive", <<>>)
  ELSE IF NonEmptyList(r.allowedEmails) /\ FirstBadEmail(r.allowedEmails.v) # 0
    THEN Invalid("Invalid email address",
                 r.allowedEmails.v[FirstBadEmail(r.allowedEmails.v)])
  ELSE IF NonEmptyList(r.allowedAddresses)
            /\ FirstBadAddress(r.allowedAddresses.v) # 0
    THEN Invalid("Invalid Sui address",
                 r.allowedAddresses.v[FirstBadAddress(r.allowedAddresses.v)])
  ELSE IF NonEmptyList(r.allowedSuiNS) /\ FirstBadSuiNS(r.allowedSuiNS.v) # 0
    THEN Invalid("Invalid SuiNS name",
                 r.allowedSuiNS.v[FirstBadSuiNS(r.allowedSuiNS.v)])
  ELSE IF TimeOrderCheck(r)
    THEN Invalid("Access start time must be before end time", <<>>)
  ELSE IF HybridCheck(r)
    THEN Invalid("Hybrid access control must specify at least one access method", <<>>)
  ELSE Valid

validateAccessRule(r) ==
  IF r.conditionType \notin ConditionTypes
    THEN Invalid("Invalid condition type", <<>>)
  ELSE IF NonEmptyList(r.allowedEmails) /\ FirstBadEmail(r.allowedEmails.v) # 0
    THEN Invalid("Invalid email address",
                 r.allowedEmails.v[FirstBadEmail(r.allowedEmails.v)])
  ELSE IF NonEmptyList(r.allowedAddresses)
            /\ FirstBadAddress(r.allowedAddresses.v) # 0
    THEN Invalid("Invalid Sui address",
                 r.allowedAddresses.v[FirstBadAddress(r.allowedAddresses.v)])
  ELSE IF NonEmptyList(r.allowedSuiNS) /\ FirstBadSuiNS(r.allowedSuiNS.v) # 0
    THEN Invalid("Invalid SuiNS name",
                 r.allowedSuiNS.v[FirstBadSuiNS(r.allowedSuiNS.v)])
  ELSE IF TimeOrderCheck(r)
    THEN Invalid("Access start time must be before end time", <<>>)
  ELSE IF DurationCheck(r)
    THEN Invalid("Max access duration must be positive", <<>>)
  ELSE IF CountCheck(r)
    THEN Invalid("Max access count must be positive", <<>>)
  ELSE IF HybridCheck(r)
    THEN Invalid("Hybrid access control must specify at least one access method", <<>>)
  ELSE Valid

(***************************************************************************)
(* Rules the checks are run on                                             *)
(***************************************************************************)
GoodEmail == <<"a", "@", "b", ".", "c">>
NoAtEmail == <<"a", "b", ".", "c">>
NoDotEmail == <<"a", "@", "b">>
SpaceEmail == <<"a", " ", "@", "b", ".", "c">>
GoodAddress == <<"0", "x">> \o Rep("a", 2 * SUI_ADDRESS_LENGTH)
BareAddress == Rep("F", 2 * SUI_ADDRESS_LENGTH)
ShortAddress == <<"0", "x", "1", "2">>
NonHexAddress == <<"0", "x">> \o Rep("g", 2 * SUI_ADDRESS_LENGTH)
GoodSuiNS == <<"a", "b", ".", "s", "u", "i">>
Longest == Rep("a", 60) \o <<".", "s", "u", "i">>
TooLong == Rep("a", 61) \o <<".", "s", "u", "i">>
ThreeChars == <<"a", "b", "c">>
NoSuffix == <<"a", "b", ".", "e", "t", "h">>

EmailLists ==
  { UndefinedList, Some(<<>>), Some(<<GoodEmail>>), Some(<<GoodEmail, NoAtEmail>>),
    Some(<<NoDotEmail, SpaceEmail>>) }
AddressLists ==
  { UndefinedList, Some(<<>>), Some(<<GoodAddress, BareAddress>>),
    Some(<<GoodAddress, ShortAddress, NonHexAddress>>) }
SuiNSLists ==
  { UndefinedList, Some(<<GoodSuiNS, Longest>>), Some(<<GoodSuiNS, ThreeChars>>),
    Some(<<TooLong>>), Some(<<NoSuffix, ThreeChars>>) }
Times == {Undefined} \cup {Some(t) : t \in 0..MaxTime}
Amounts == {Undefined} \cup {Some(n) : n \in -1..1}

Rules ==
  [ conditionType : ConditionTypes \cup {"role"},
    allowedEmails : EmailLists,
    allowedAddresses : AddressLists,
    allowedSuiNS : SuiNSLists,
    accessStartTime : Times,
    accessEndTime : Times,
    maxAccessDuration : Amounts,
    maxAccessCount : Amounts ]

NotValidated == [valid |-> FALSE, error |-> [kind |-> "pending", arg |-> <<>>]]

EmptyRule ==
  [ conditionType |-> "email", allowedEmails |-> UndefinedList,
    allowedAddresses |-> UndefinedList, allowedSuiNS |-> UndefinedList,
    accessStartTime |-> Undefined, accessEndTime |-> Undefined,
    maxAccessDuration |-> Undefined, maxAccessCount |-> Undefined ]
RuleIdle == rule = EmptyRule /\ validation = NotValidated
RuleInit == rule \in Rules /\ validation = NotValidated

\* a caller runs validateAccessRule on the rule it built
Validate ==
  /\ validation = NotValidated
  /\ validation' = validateAccessRule(rule)
  /\ UNCHANGED <<rule, bulkVars, sealVars, fileVars, uploadVars, authVars, viewerVars, accessVars>>

Validated == validation # NotValidated

\* C2: a rule whose accessStartTime and accessEndTime are both set with
\* accessStartTime >= accessEndTime is reported invalid, 0 included
C2_StartNotBeforeEndRejected ==
  (Validated /\ rule.accessStartTime.set /\ rule.accessEndTime.set
     /\ rule.accessStartTime.v >= rule.accessEndTime.v)
    => ~validation.valid

\* C3: a rule whose maxAccessDuration is set and <= 0, or whose maxAccessCount
\* is set and <= 0, is reported invalid
C3_NonPositiveLimitsRejected ==
  (Validated /\ ( (rule.maxAccessDuration.set /\ rule.maxAccessDuration.v <= 0)
                  \/ (rule.maxAccessCount.set /\ rule.maxAccessCount.v <= 0) ))
    => ~validation.valid

HasSuffixSui(n) == Len(n) >= 4 /\ SubSeq(n, Len(n) - 3, Len(n)) = <<".", "s", "u", "i">>
Elems(l) == IF l.set THEN {l.v[i] : i \in 1..Len(l.v)} ELSE {}
UnknownType(r) == r.conditionType \notin {"email", "wallet", "time", "hybrid"}
MalformedEmailIn(r) == \E e \in Elems(r.allowedEmails) : ~isValidEmail(e)
MalformedAddressIn(r) == \E a \in Elems(r.allowedAddresses) : ~isValidSuiAddress(a)
BadSuiNSIn(r) ==
  \E n \in Elems(r.allowedSuiNS) : Len(n) < 4 \/ Len(n) > 64 \/ ~HasSuffixSui(n)
HybridWithNothing(r) ==
  /\ r.conditionType = "hybrid"
  /\ Elems(r.allowedEmails) = {}
  /\ Elems(r.allowedAddresses) = {}
  /\ ~r.accessStartTime.set /\ ~r.accessEndTime.set /\ ~r.maxAccessDuration.set
ListedViolation(r) ==
  UnknownType(r) \/ MalformedEmailIn(r) \/ MalformedAddressIn(r) \/ BadSuiNSIn(r)
    \/ HybridWithNothing(r)

\* C4: a rule with an unknown condition type, a malformed email or address,
\* a SuiNS name outside 4..64 characters or without the .sui suffix, or of
\* type hybrid with no email, address or time condition, is reported
\* invalid; a rule reported valid has none of these
C4_ListedViolationsRejected ==
  Validated => (ListedViolation(rule) => ~validation.valid)
                 /\ (validation.valid => ~ListedViolation(rule))
C4_Witness ==
  /\ Validated /\ ~validation.valid
  /\ rule.conditionType = "wallet"
  /\ rule.allowedSuiNS = Some(<<TooLong>>)
  /\ validation.error = [kind |-> "Invalid SuiNS name", arg |-> TooLong]

\* the checks in their fixed order, each with the error it reports
FirstIn(l, Bad(_)) ==
  CHOOSE x \in Elems(l) :
    \E i \in 1..Len(l.v) : l.v[i] = x /\ Bad(x) /\ \A j \in 1..(i - 1) : ~Bad(l.v[j])
OrderedChecks(r) ==
  << [violated |-> r.conditionType \notin ConditionTypes,
      error |-> [kind |-> "Invalid condition type", arg |-> <<>>]],
     [violated |-> \E e \in Elems(r.allowedEmails) : BadEmail(e),
      error |-> [kind |-> "Invalid email address",
                 arg |-> IF \E e \in Elems(r.allowedEmails) : BadEmail(e)
                           THEN FirstIn(r.allowedEmails, BadEmail) ELSE <<>>]],
     [violated |-> \E a \in Elems(r.allowedAddresses) : BadAddress(a),
      error |-> [kind |-> "Invalid Sui address",
                 arg |-> IF \E a \in Elems(r.allowedAddresses) : BadAddress(a)
                           THEN FirstIn(r.allowedAddresses, BadAddress) ELSE <<>>]],
     [violated |-> \E n \in Elems(r.allowedSuiNS) : BadSuiNS(n),
      error |-> [kind |-> "Invalid SuiNS name",
                 arg |-> IF \E n \in Elems(r.allowedSuiNS) : BadSuiNS(n)
                           THEN FirstIn(r.allowedSuiNS, BadSuiNS) ELSE <<>>]],
     [violated |-> TimeOrderCheck(r),
      error |-> [kind |-> "Access start time must be before end time", arg |-> <<>>]],
     [violated |-> DurationCheck(r),
      error |-> [kind |-> "Max access duration must be positive", arg |-> <<>>]],
     [violated |-> CountCheck(r),
      error |-> [kind |-> "Max access count must be positive", arg |-> <<>>]],
     [violated |-> HybridCheck(r),
      error |-> [kind |-> "Hybrid access control must specify at least one access method",
                 arg |-> <<>>]] >>
ViolatedIn(checks) == {k \in 1..Len(checks) : checks[k].violated}

EmptyParsed == [emails |-> <<>>, addresses |-> <<>>, suiNSNames |-> <<>>, errors |-> <<>>]

\* `lines.filter(line => line.trim())` then `line.split(',').map(trim)`
CsvRows(text) ==
  LET lines == SelectSeq(Split(text, "\n"), LAMBDA line : Trim(line) # <<>>)
  IN  [i \in 1..Len(lines) |->
         LET cells == Split(lines[i], ",")
         IN  [j \in 1..Len(cells) |-> Trim(cells[j])]]

\* variant: a classified cell is pushed without the includes() test
ClassifyCell_NoDedup(res, index, cell) ==
  LET trimmedCell == Trim(cell)
  IN  IF trimmedCell = <<>> THEN res
      ELSE IF isValidEmail(trimmedCell)
        THEN [res EXCEPT !.emails = Append(@, trimmedCell)]
      ELSE IF isValidSuiAddress(trimmedCell)
        THEN [res EXCEPT !.addresses = Append(@, trimmedCell)]
      ELSE IF isValidSuiNS(trimmedCell)
        THEN [res EXCEPT !.suiNSNames = Append(@, trimmedCell)]
      ELSE [res EXCEPT !.errors = Append(@, [row |-> index + 1, cell |-> trimmedCell])]

\* the body of the inner forEach: one cell of row `index` (0-based)
ClassifyCell(res, index, cell) ==
  LET trimmedCell == Trim(cell)
  IN  IF trimmedCell = <<>> THEN res
      ELSE IF isValidEmail(trimmedCell)
        THEN IF Includes(res.emails, trimmedCell) THEN res
             ELSE [res EXCEPT !.emails = Append(@, trimmedCell)]
      ELSE IF isValidSuiAddress(trimmedCell)
        THEN IF Includes(res.addresses, trimmedCell) THEN res
             ELSE [res EXCEPT !.addresses = Append(@, trimmedCell)]
      ELSE IF isValidSuiNS(trimmedCell)
        THEN IF Includes(res.suiNSNames, trimmedCell) THEN res
             ELSE [res EXCEPT !.suiNSNames = Append(@, trimmedCell)]
      ELSE [res EXCEPT !.errors = Append(@, [row |-> index + 1, cell |-> trimmedCell])]

RECURSIVE ForEachCell(_, _, _, _)
ForEachCell(res, index, row, j) ==
  IF j > Len(row) THEN res
  ELSE ForEachCell(ClassifyCell(res, index, row[j]), index, row, j + 1)
RECURSIVE ForEachRow(_, _, _)
ForEachRow(res, rows, i) ==
  IF i > Len(rows) THEN res
  ELSE ForEachRow(ForEachCell(res, i - 1, rows[i], 1), rows, i + 1)

parseBulkData(text, fileType) ==
  LET rows == IF fileType = "csv" THEN CsvRows(text) ELSE <<>>
  IN  ForEachRow(EmptyParsed, rows, 1)

\* texts: up to MaxPieces tokens and separators, concatenated
Junk == <<"x", "y">>
OtherEmail == <<"d", "@", "e", ".", "f">>
Pieces == { GoodEmail, OtherEmail, GoodAddress, GoodSuiNS, Junk,
            <<",">>, <<"\n">>, <<" ">> }
RECURSIVE Texts(_)
Texts(n) ==
  IF n = 0 THEN {<<>>}
  ELSE LET shorter == Texts(n - 1)
       IN  shorter \cup {t \o p : t \in shorter, p \in Pieces}

NotParsed == [fileType |-> "none", result |-> EmptyParsed]

BulkIdle == content = <<>> /\ parsed = NotParsed
BulkInit == content \in Texts(MaxPieces) /\ parsed = NotParsed

\* the bulk-upload dialog hands the file text to parseBulkData
ParseBulk ==
  /\ parsed = NotParsed
  /\ \E fileType \in {"csv", "xlsx"} :
       parsed' = [fileType |-> fileType, result |-> parseBulkData(content, fileType)]
  /\ UNCHANGED <<content, ruleVars, sealVars, fileVars, uploadVars, authVars, viewerVars, accessVars>>

Parsed == parsed # NotParsed
NoDuplicates(list) == \A i, j \in 1..Len(list) : list[i] = list[j] => i = j
Range(list) == {list[i] : i \in 1..Len(list)}
\* where the non-empty trimmed cells of the rows are: <<row, column>>
CellPositions(rows) ==
  {pos \in UNION {{<<i, j>> : j \in 1..Len(rows[i])} : i \in 1..Len(rows)} :
     rows[pos[1]][pos[2]] # <<>>}

\* C6: for CSV text, emails, addresses and suiNSNames hold no value twice;
\* every non-empty trimmed cell is in exactly one of emails, addresses,
\* suiNSNames, errors, the first of email, address, SuiNS name it passes
\* deciding which; nothing else is in the output
C6_BulkDedup ==
  (Parsed /\ parsed.fileType = "csv") =>
    LET r == parsed.result
        rows == CsvRows(content)
        at == CellPositions(rows)
        cells == {rows[pos[1]][pos[2]] : pos \in at}
        errorCells == {r.errors[i].cell : i \in 1..Len(r.errors)}
        home(c) == IF isValidEmail(c) THEN "emails"
                   ELSE IF isValidSuiAddress(c) THEN "addresses"
                   ELSE IF isValidSuiNS(c) THEN "suiNSNames"
                   ELSE "errors"
    IN  /\ NoDuplicates(r.emails)
        /\ NoDuplicates(r.addresses)
        /\ NoDuplicates(r.suiNSNames)
        /\ Range(r.emails) = {c \in cells : home(c) = "emails"}
        /\ Range(r.addresses) = {c \in cells : home(c) = "addresses"}
        /\ Range(r.suiNSNames) = {c \in cells : home(c) = "suiNSNames"}
        /\ errorCells = {c \in cells : home(c) = "errors"}
        /\ \A i \in 1..Len(r.errors) :
              \E pos \in at :
                 pos[1] = r.errors[i].row /\ rows[pos[1]][pos[2]] = r.errors[i].cell
C6_Witness ==
  /\ Parsed /\ parsed.fileType = "csv"
  /\ LET rows == CsvRows(content)
     IN  \E p, q \in CellPositions(rows) :
            /\ p[1] # q[1]
            /\ rows[p[1]][p[2]] = GoodSuiNS /\ rows[q[1]][q[2]] = GoodSuiNS
  /\ parsed.result.suiNSNames = <<GoodSuiNS>>

(***************************************************************************)
(* SealEncryptionService                                                   *)
(***************************************************************************)
Callers == 1..NumCallers

NoResult ==
  [ kind |-> "none", success |-> FALSE, data |-> <<>>, publicKey |-> <<>>,
    secretKey |-> <<>>, originalSize |-> 0, error |-> "" ]
\* variant: the catch block throws again instead of returning a result
Failure_Rethrow(kind, error) == [NoResult EXCEPT !.kind = "threw", !.error = error]
\* { success: false, error } as encryptFile and decryptFile return it
Failure(kind, error) == [NoResult EXCEPT !.kind = kind, !.error = error]

NoInput == [data |-> <<>>, key |-> <<>>, own |-> FALSE]

SealInit ==
  /\ isInitialized = FALSE
  /\ initializationPromise = "null"
  /\ SealLibrary = "null"
  /\ initStarts = 0
  /\ inFlight = 0
  /\ pc = [c \in Callers |-> "idle"]
  /\ op = [c \in Callers |-> "none"]
  /\ file = [c \in Callers |-> <<>>]
  /\ input = [c \in Callers |-> NoInput]
  /\ result = [c \in Callers |-> NoResult]

isReady == isInitialized /\ SealLibrary # "null"

\* variant: initialize() forgets the in-flight promise
ShouldStartInit_NoMemo == ~isInitialized
\* initialize(): neither initialized nor an initialization in flight
ShouldStartInit == ~isInitialized /\ initializationPromise = "null"

\* initialize() up to its return: starts _initializeSeal, which runs to its
\* `await import(...)`, or returns the promise there is
Initialize ==
  IF ShouldStartInit
    THEN /\ initializationPromise' = "pending"
         /\ initStarts' = initStarts + 1
         /\ inFlight' = inFlight + 1
    ELSE UNCHANGED <<initializationPromise, initStarts, inFlight>>

\* variant: a failed import leaves no library behind
LibraryAfterImport_NoMock(loaded) == IF loaded THEN "seal" ELSE "null"
\* what _initializeSeal assigns to SealLibrary: the imported module, or the
\* mock object of its inner catch block
LibraryAfterImport(loaded) == IF loaded THEN "seal" ELSE "mock"

\* getStatus()
getStatus ==
  [ isInitialized |-> isInitialized, isReady |-> isReady,
    libraryLoaded |-> SealLibrary # "null" ]

\* _initializeSeal after its import settled: the module, or the mock when
\* the import failed
ImportSettles(loaded) ==
  /\ inFlight > 0
  /\ inFlight' = inFlight - 1
  /\ SealLibrary' = LibraryAfterImport(loaded)
  /\ isInitialized' = TRUE
  /\ initializationPromise' = "fulfilled"
  /\ UNCHANGED <<initStarts, pc, op, file, input, result>>

CanCall(c) == pc[c] \in {"idle", "done"}

\* a caller calls initialize() itself (the hook on mount, the test utilities)
CallInitialize(c) ==
  /\ CanCall(c)
  /\ op' = [op EXCEPT ![c] = "initialize"]
  /\ file' = [file EXCEPT ![c] = <<>>]
  /\ input' = [input EXCEPT ![c] = NoInput]
  /\ result' = [result EXCEPT ![c] = NoResult]
  /\ Initialize
  /\ pc' = [pc EXCEPT ![c] = "await_init"]
  /\ UNCHANGED <<isInitialized, SealLibrary>>

\* encryptFile(file) up to `await this.initialize()`
CallEncrypt(c, bytes) ==
  /\ CanCall(c)
  /\ op' = [op EXCEPT ![c] = "encrypt"]
  /\ file' = [file EXCEPT ![c] = bytes]
  /\ input' = [input EXCEPT ![c] = NoInput]
  /\ result' = [result EXCEPT ![c] = NoResult]
  /\ Initialize
  /\ pc' = [pc EXCEPT ![c] = "await_init"]
  /\ UNCHANGED <<isInitialized, SealLibrary>>

\* decryptFile(encryptedData, secretKey) up to `await this.initialize()`
CallDecrypt(c, data, key, own) ==
  /\ CanCall(c)
  /\ op' = [op EXCEPT ![c] = "decrypt"]
  /\ input' = [input EXCEPT ![c] = [data |-> data, key |-> key, own |-> own]]
  /\ file' = [file EXCEPT ![c] = IF own THEN @ ELSE <<>>]
  /\ result' = [result EXCEPT ![c] = NoResult]
  /\ Initialize
  /\ pc' = [pc EXCEPT ![c] = "await_init"]
  /\ UNCHANGED <<isInitialized, SealLibrary>>

\* the caller decrypts what its own encryptFile call returned, with that key
CallDecryptOwn(c) ==
  /\ pc[c] = "done" /\ op[c] = "encrypt" /\ result[c].success
  /\ CallDecrypt(c, result[c].data, result[c].secretKey, TRUE)

\* the awaited initialization is done: the isReady() test
AfterInit(c) ==
  /\ pc[c] = "await_init"
  /\ isInitialized
  /\ IF op[c] = "initialize"
       THEN /\ pc' = [pc EXCEPT ![c] = "done"]
            /\ result' = [result EXCEPT ![c] = [NoResult EXCEPT !.kind = "initialize",
                                                                  !.success = TRUE]]
     ELSE IF ~isReady
       THEN /\ pc' = [pc EXCEPT ![c] = "done"]
            /\ result' = [result EXCEPT ![c] =
                             Failure(op[c], "Seal encryption service not ready")]
     ELSE /\ pc' = [pc EXCEPT ![c] = IF op[c] = "encrypt" THEN "read" ELSE "decrypt"]
          /\ UNCHANGED result
  /\ UNCHANGED <<isInitialized, initializationPromise, SealLibrary, initStarts, inFlight,
                 op, file, input>>

\* `await file.arrayBuffer()` settles; a rejection lands in the catch block
FileRead(c, readable) ==
  /\ pc[c] = "read"
  /\ IF readable
       THEN /\ pc' = [pc EXCEPT ![c] = "encrypt"]
            /\ UNCHANGED result
       ELSE /\ pc' = [pc EXCEPT ![c] = "done"]
            /\ result' = [result EXCEPT ![c] = Failure("encrypt", "The file could not be read")]
  /\ UNCHANGED <<isInitialized, initializationPromise, SealLibrary, initStarts, inFlight,
                 op, file, input>>

Chars_algorithm == <<"a","l","g","o","r","i","t","h","m">>
Chars_SealBFV == <<"S","e","a","l","-","B","F","V">>
Chars_publicKey == <<"p","u","b","l","i","c","K","e","y">>
Chars_originalSize == <<"o","r","i","g","i","n","a","l","S","i","z","e">>
Chars_timestamp == <<"t","i","m","e","s","t","a","m","p">>
Chars_encryptedChunks == <<"e","n","c","r","y","p","t","e","d","C","h","u","n","k","s">>
Chars_seal_public_ == <<"s","e","a","l","_","p","u","b","l","i","c","_">>
Chars_seal_secret_ == <<"s","e","a","l","_","s","e","c","r","e","t","_">>

\* _generateKeyPair: both keys are built from the one keyId
generateKeyPair(keyId) ==
  [publicKey |-> Chars_seal_public_ \o keyId, secretKey |-> Chars_seal_secret_ \o keyId]

\* JSON.stringify(encryptionMetadata), encryptedChunks: [Array.from(data)]
StringifyMetadata(data, publicKey, now) ==
  <<"{">> \o JsonString(Chars_algorithm) \o <<":">> \o JsonString(Chars_SealBFV)
    \o <<",">> \o JsonString(Chars_publicKey) \o <<":">> \o JsonString(publicKey)
    \o <<",">> \o JsonString(Chars_originalSize) \o <<":">> \o DigitsOf(Len(data))
    \o <<",">> \o JsonString(Chars_timestamp) \o <<":">> \o DigitsOf(now)
    \o <<",">> \o JsonString(Chars_encryptedChunks) \o <<":">>
    \o <<"[">> \o JsonNumberArray(data) \o <<"]">> \o <<"}">>

\* _encryptData
encryptData(data, publicKey, now) == TextEncode(StringifyMetadata(data, publicKey, now))

\* the last member named key of a parsed object, or "undefined"
JUndefined == [t |-> "undefined", v |-> 0]
Member(val, key) ==
  LET at == {i \in 1..Len(val.v) : val.v[i][1] = key}
  IN  IF at = {} THEN JUndefined ELSE val.v[Max(at)][2]
\* value[0]
First(val) ==
  IF val.t = "arr" THEN IF val.v = <<>> THEN JUndefined ELSE val.v[1]
  ELSE IF val.t = "str" THEN IF val.v = <<>> THEN JUndefined
                             ELSE [t |-> "str", v |-> <<val.v[1]>>]
  ELSE IF val.t = "obj" THEN Member(val, <<"0">>)
  ELSE JUndefined
\* ToNumber, then ToUint8, of an array element
ToUint8(val) ==
  IF val.t = "num" THEN val.v % 256
  ELSE IF val.t = "str" /\ val.v # <<>> /\ \A i \in 1..Len(val.v) : val.v[i] \in Digit
    THEN NumberValue(val.v, 1, Len(val.v)) % 256
  ELSE 0
\* new Uint8Array(x)
NewUint8Array(val) ==
  IF val.t = "arr" THEN [i \in 1..Len(val.v) |-> ToUint8(val.v[i])]
  ELSE IF val.t = "num" THEN Rep(0, val.v)
  ELSE <<>>

\* variant: the bytes are read back from the envelope itself
decryptData_WholeEnvelope(encryptedData) ==
  LET parsed_ == JsonParse(TextDecode(encryptedData))
  IN  IF ~parsed_.ok THEN [success |-> FALSE, data |-> <<>>, error |-> "SyntaxError"]
      ELSE [success |-> TRUE, data |-> encryptedData, error |-> ""]

\* _decryptData: new Uint8Array(JSON.parse(text).encryptedChunks[0])
decryptData(encryptedData) ==
  LET parsed_ == JsonParse(TextDecode(encryptedData))
  IN  IF ~parsed_.ok THEN [success |-> FALSE, data |-> <<>>, error |-> "SyntaxError"]
      ELSE IF parsed_.val.t = "null"
        THEN [success |-> FALSE, data |-> <<>>, error |-> "TypeError"]
      ELSE LET chunks == IF parsed_.val.t = "obj"
                           THEN Member(parsed_.val, Chars_encryptedChunks)
                           ELSE JUndefined
           IN  IF chunks.t \in {"undefined", "null"}
                 THEN [success |-> FALSE, data |-> <<>>, error |-> "TypeError"]
               ELSE [success |-> TRUE, data |-> NewUint8Array(First(chunks)), error |-> ""]

\* encryptFile after the file was read: _generateKeyPair, _encryptData and
\* the result; keyId and now are what Date.now() and Math.random() give
Encrypt(c, keyId, now) ==
  /\ pc[c] = "encrypt"
  /\ LET keyPair == generateKeyPair(keyId)
     IN  result' = [result EXCEPT ![c] =
           [ kind |-> "encrypt", success |-> TRUE,
             data |-> encryptData(file[c], keyPair.publicKey, now),
             publicKey |-> keyPair.publicKey, secretKey |-> keyPair.secretKey,
             originalSize |-> Len(file[c]), error |-> "" ]]
  /\ pc' = [pc EXCEPT ![c] = "done"]
  /\ UNCHANGED <<isInitialized, initializationPromise, SealLibrary, initStarts, inFlight,
                 op, file, input>>

\* variant: a key that is not a seal_secret_ key is refused
DecryptionResult_KeyChecked(encryptedData, secretKey) ==
  LET d == decryptData(encryptedData)
  IN  IF Len(secretKey) < Len(Chars_seal_secret_) THEN Failure("decrypt", "Wrong key")
      ELSE IF d.success
        THEN [NoResult EXCEPT !.kind = "decrypt", !.success = TRUE, !.data = d.data]
      ELSE Failure("decrypt", d.error)
\* what decryptFile(encryptedData, _secretKey) returns once the adapter is ready
DecryptionResult(encryptedData, secretKey) ==
  LET d == decryptData(encryptedData)
  IN  IF d.success
        THEN [NoResult EXCEPT !.kind = "decrypt", !.success = TRUE, !.data = d.data]
      ELSE Failure("decrypt", d.error)

\* decryptFile after the isReady() test: _decryptData and the result
Decrypt(c) ==
  /\ pc[c] = "decrypt"
  /\ result' = [result EXCEPT ![c] = DecryptionResult(input[c].data, input[c].key)]
  /\ pc' = [pc EXCEPT ![c] = "done"]
  /\ UNCHANGED <<isInitialized, initializationPromise, SealLibrary, initStarts, inFlight,
                 op, file, input>>

\* what the calls are made with
ByteSamples == {0, 9, 44, 159, 240, 255}
Files(n) == UNION {[1..k -> ByteSamples] : k \in 0..n}
KeyIds == {<<"k", "1">>, <<"m", "2", "x">>}
Timestamps == {7, 10}
SmallFiles == {<<240, 159>>}
ForeignKey == Chars_seal_secret_ \o <<"z">>
\* the keys decryptFile is called with: another upload's key, and no key
DecryptKeys == {ForeignKey, <<>>}
Envelopes ==
  { <<255, 0>>, TextEncode(<<"{","}">>),
    TextEncode(<<"{">> \o JsonString(Chars_encryptedChunks) \o <<":","[","[","7","]","]","}">>) }

\* C1: encryptFile on a readable file succeeds, and decryptFile on the
\* encryptedData and secretKey it returned succeeds with the file's bytes
C1_RoundTrip ==
  \A c \in Callers :
    /\ (pc[c] = "done" /\ op[c] = "encrypt") => result[c].success
    /\ (pc[c] = "done" /\ op[c] = "decrypt" /\ input[c].own) =>
          result[c].success /\ result[c].data = file[c]
C1_Witness ==
  /\ pc[1] = "done" /\ op[1] = "decrypt" /\ input[1].own
  /\ file[1] = <<240, 159, 0>>
  /\ result[1].data = <<240, 159, 0>>
  /\ input[1].data # file[1]

\* C10: _initializeSeal is entered at most once; a caller waiting for
\* initialize() waits for the one run in flight, and no caller gets past
\* its `await this.initialize()` before that run has finished
C10_InitOnce ==
  /\ initStarts <= 1
  /\ \A c \in Callers :
       /\ (pc[c] = "await_init" /\ ~isInitialized) =>
             (initializationPromise = "pending" /\ inFlight = 1)
       /\ pc[c] \in {"read", "encrypt", "decrypt", "done"} =>
             (isInitialized /\ inFlight = 0)
C10_Witness ==
  /\ initStarts = 1
  /\ initializationPromise = "pending"
  /\ \E c, d \in Callers :
       /\ c # d
       /\ pc[c] = "await_init" /\ op[c] = "encrypt"
       /\ pc[d] = "await_init" /\ op[d] = "decrypt"

\* C11: when loading the library failed, initialize() still resolves, and
\* afterwards isReady() is true and getStatus() reports isInitialized,
\* isReady and libraryLoaded all true; initialization never finishes with
\* isReady() false
C11_MockFallback ==
  /\ SealLibrary = "mock" =>
        getStatus = [isInitialized |-> TRUE, isReady |-> TRUE, libraryLoaded |-> TRUE]
  /\ (isInitialized \/ initializationPromise = "fulfilled") => isReady
  /\ \A c \in Callers :
       (pc[c] = "done" /\ op[c] = "initialize") => result[c].success
C11_Witness ==
  /\ SealLibrary = "mock"
  /\ getStatus.isReady
  /\ \E c \in Callers : pc[c] = "done" /\ op[c] = "initialize" /\ result[c].success

\* the envelope is not JSON text, or is JSON without an encryptedChunks member
Unreadable(envelope) ==
  LET p == JsonParse(TextDecode(envelope))
  IN  \/ ~p.ok
      \/ p.val.t # "obj"
      \/ Member(p.val, Chars_encryptedChunks).t = "undefined"

\* C12: every encryptFile and decryptFile call resolves to a result object;
\* a failure is {success:false, error} with a non-empty error and without
\* data or keys; an envelope that is not JSON or has no encryptedChunks, and
\* a file that cannot be read, are reported as failures
C12_NeverThrows ==
  \A c \in Callers :
    (pc[c] = "done" /\ op[c] \in {"encrypt", "decrypt"}) =>
      /\ result[c].kind = op[c]
      /\ ~result[c].success =>
            /\ result[c].error # ""
            /\ result[c].data = <<>>
            /\ result[c].publicKey = <<>> /\ result[c].secretKey = <<>>
      /\ (op[c] = "decrypt" /\ Unreadable(input[c].data)) => ~result[c].success
      /\ (op[c] = "encrypt" /\ result[c].success) => result[c].data # <<>>
C12_Witness ==
  \E c, d \in Callers :
    /\ pc[c] = "done" /\ op[c] = "decrypt"
    /\ input[c].data = TextEncode(<<"{", "}">>)
    /\ ~result[c].success /\ result[c].error = "TypeError"
    /\ pc[d] = "done" /\ op[d] = "encrypt"
    /\ ~result[d].success /\ result[d].error # ""

(***************************************************************************)
(* JavaScript values of response bodies                                    *)
(***************************************************************************)
JStr(chars) == [t |-> "str", v |-> chars]
JNum(n) == [t |-> "num", v |-> n]
JBool(b) == [t |-> "bool", v |-> b]
JArr(vals) == [t |-> "arr", v |-> vals]
JObj(pairs) == [t |-> "obj", v |-> pairs]

\* ToBoolean
JsTruthy(val) ==
  IF val.t \in {"undefined", "null"} THEN FALSE
  ELSE IF val.t = "num" THEN val.v # 0
  ELSE IF val.t = "str" THEN val.v # <<>>
  ELSE IF val.t = "bool" THEN val.v
  ELSE TRUE
\* a || b
JsOr(a, b) == IF JsTruthy(a) THEN a ELSE b
\* val.key of a value that is neither null nor undefined
Prop(val, key) == IF val.t = "obj" THEN Member(val, key) ELSE JUndefined
\* reading a property of null or undefined throws a TypeError
Nullish(val) == val.t \in {"undefined", "null"}

(***************************************************************************)
(* FileService                                                             *)
(***************************************************************************)
NullToken == "<null>"
Tokens == {NullToken, "", "jwt"}
\* `if (token)`: null and the empty string are falsy
TokenSet(tok) == tok \notin {NullToken, ""}

\* getAuthHeaders and the headers uploadFile builds: the Authorization header
Authorization(tok) == IF TokenSet(tok) THEN <<"Bearer", tok>> ELSE <<>>
Request(method, endpoint, tok, body) ==
  [method |-> method, endpoint |-> endpoint, authorization |-> Authorization(tok),
   body |-> body]

\* what fetch and response.json() give: the request fails, the body is not
\* JSON, or a status (ok = 2xx) and a parsed body
Response(kind, ok, body) == [kind |-> kind, ok |-> ok, body |-> body]
NetworkError == Response("network_error", FALSE, JNull)
NotJson(ok) == Response("not_json", ok, JNull)
Json(ok, body) == Response("json", ok, body)

\* error.message of what the try block threw, as words
Words_TypeError == <<"TypeError">>
Words_SyntaxError == <<"SyntaxError">>
Words_FetchFailed == <<"fetch", "failed">>
\* the message of a response that cannot be used: fetch rejected, or
\* response.json() rejected
Unusable(resp) == IF resp.kind = "network_error" THEN Words_FetchFailed ELSE Words_SyntaxError
\* `data.message || fallback`
MessageOr(data, fallback) ==
  LET m == Prop(data, <<"message">>) IN IF JsTruthy(m) THEN m.v ELSE fallback

NoCall == [op |-> "none", token |-> NullToken, useTestMode |-> FALSE, cid |-> ""]
NoResponse == Response("none", FALSE, JNull)
NoFsResult == [success |-> FALSE, message |-> <<>>, files |-> <<>>]
FsFailure(message) == [success |-> FALSE, message |-> message, files |-> <<>>]
\* variant: the catch block returns no message
AcFailure_NoMessage(message) == [success |-> FALSE, message |-> <<>>, data |-> JUndefined]
\* what the catch block of an AccessControlService method returns
AcFailure(message) == [success |-> FALSE, message |-> message, data |-> JUndefined]

FsIdle ==
  /\ fsPc = "idle"
  /\ fsCall = NoCall
  /\ fsSent = <<>>
  /\ fsResponse = NoResponse
  /\ fsResult = NoFsResult

\* one entry of the backend list as a FileMetadata
FormatFile(entry, now) ==
  [ cid |-> JsOr(Prop(entry, <<"cid">>), Prop(entry, <<"fileCid">>)),
    filename |-> JsOr(Prop(entry, <<"filename">>), Prop(entry, <<"name">>)),
    fileSize |-> JsOr(Prop(entry, <<"fileSize">>), Prop(entry, <<"size">>)),
    uploadTimestamp |-> JsOr(JsOr(Prop(entry, <<"uploadTimestamp">>),
                                  Prop(entry, <<"timestamp">>)), JNum(now)),
    uploader |-> JsOr(Prop(entry, <<"uploader">>), JStr(<<"user">>)),
    isOwner |-> TRUE,
    isEncrypted |-> Prop(entry, <<"isEncrypted">>) ]

\* `data.files || data.data || data`
BackendFiles(data) == JsOr(Prop(data, <<"files">>), JsOr(Prop(data, <<"data">>), data))

\* getUserFiles after its fetch settled
getUserFilesResult(resp, now) ==
  IF resp.kind # "json" THEN FsFailure(Unusable(resp))
  ELSE LET data == resp.body
       IN  IF Nullish(data) THEN FsFailure(Words_TypeError)
           ELSE IF ~resp.ok
             THEN FsFailure(MessageOr(data, <<"Failed", "to", "fetch", "files">>))
           ELSE LET backendFiles == BackendFiles(data)
                IN  IF backendFiles.t # "arr"
                      THEN FsFailure(<<"Invalid", "response", "format", "from", "server">>)
                    ELSE IF \E n \in 1..Len(backendFiles.v) : Nullish(backendFiles.v[n])
                      THEN FsFailure(Words_TypeError)
                    ELSE [ success |-> TRUE, message |-> <<>>,
                           files |-> [n \in 1..Len(backendFiles.v) |->
                                        FormatFile(backendFiles.v[n], now)] ]

\* clearUserFiles / deleteFile after their fetch settled
deleteResult(resp, failed, deleted) ==
  IF resp.kind # "json" THEN FsFailure(Unusable(resp))
  ELSE LET data == resp.body
       IN  IF Nullish(data) THEN FsFailure(Words_TypeError)
           ELSE IF ~resp.ok THEN FsFailure(MessageOr(data, failed))
           ELSE [success |-> TRUE, message |-> MessageOr(data, deleted), files |-> <<>>]

\* variant: the gate lets every call through
NeedsAuth_Never(tok, testMode) == FALSE
\* `if (!token && !useTestMode)`
NeedsAuth(tok, testMode) == ~TokenSet(tok) /\ ~testMode

FsCanCall == fsPc \in {"idle", "done"}

\* getUserFiles up to `await fetch(...)`
CallGetUserFiles(tok, testMode) ==
  /\ FsCanCall
  /\ fsCall' = [op |-> "getUserFiles", token |-> tok, useTestMode |-> testMode, cid |-> ""]
  /\ fsSent' = <<Request("GET", IF testMode THEN <<"files-test">> ELSE <<"files">>, tok, <<>>)>>
  /\ fsResult' = NoFsResult
  /\ fsPc' = "fetching"
  /\ fsResponse' = NoResponse
  /\ UNCHANGED <<ruleVars, bulkVars, sealVars, uploadVars, authVars, viewerVars, accessVars>>

\* clearUserFiles up to `await fetch(...)`, or to its return at the gate
CallClearUserFiles(tok, testMode) ==
  /\ FsCanCall
  /\ fsCall' = [op |-> "clearUserFiles", token |-> tok, useTestMode |-> testMode, cid |-> ""]
  /\ fsResponse' = NoResponse
  /\ IF NeedsAuth(tok, testMode)
       THEN /\ fsSent' = <<>>
            /\ fsResult' = FsFailure(<<"Authentication", "required", "to", "delete", "files">>)
            /\ fsPc' = "done"
       ELSE /\ fsSent' = <<Request("DELETE", IF testMode THEN <<"files-test">> ELSE <<"files">>,
                                    tok, <<>>)>>
            /\ fsResult' = NoFsResult
            /\ fsPc' = "fetching"
  /\ UNCHANGED <<ruleVars, bulkVars, sealVars, uploadVars, authVars, viewerVars, accessVars>>

\* deleteFile up to `await fetch(...)`, or to its return at the gate
CallDeleteFile(cid, tok, testMode) ==
  /\ FsCanCall
  /\ fsCall' = [op |-> "deleteFile", token |-> tok, useTestMode |-> testMode, cid |-> cid]
  /\ fsResponse' = NoResponse
  /\ IF NeedsAuth(tok, testMode)
       THEN /\ fsSent' = <<>>
            /\ fsResult' = FsFailure(<<"Authentication", "required", "to", "delete", "file">>)
            /\ fsPc' = "done"
       ELSE /\ fsSent' = <<Request("DELETE",
                                    IF testMode THEN <<"file", cid, "delete-test">>
                                    ELSE <<"file", cid, "delete">>, tok, <<>>)>>
            /\ fsResult' = NoFsResult
            /\ fsPc' = "fetching"
  /\ UNCHANGED <<ruleVars, bulkVars, sealVars, uploadVars, authVars, viewerVars, accessVars>>

\* the awaited fetch of the call settles and the method returns
FetchSettles(resp, now) ==
  /\ fsPc = "fetching"
  /\ fsResult' =
       IF fsCall.op = "getUserFiles" THEN getUserFilesResult(resp, now)
       ELSE IF fsCall.op = "clearUserFiles"
         THEN deleteResult(resp, <<"Failed", "to", "delete", "files">>,
                           <<"Files", "deleted", "successfully">>)
       ELSE deleteResult(resp, <<"Failed", "to", "delete", "file">>,
                         <<"File", "deleted", "successfully">>)
  /\ fsResponse' = resp
  /\ fsPc' = "done"
  /\ UNCHANGED <<fsCall, fsSent, ruleVars, bulkVars, sealVars, uploadVars, authVars, viewerVars, accessVars>>

\* what the backend answers with: list entries carry non-empty strings and
\* sizes from 0 (an empty file) up
MaxEntries == 2
Entry_Current ==
  JObj(<< <<<<"cid">>, JStr(<<"x">>)>>, <<<<"filename">>, JStr(<<"a.txt">>)>>,
          <<<<"fileSize">>, JNum(10)>>, <<<<"uploader">>, JStr(<<"0xabc">>)>> >>)
Entry_Legacy ==
  JObj(<< <<<<"fileCid">>, JStr(<<"y">>)>>, <<<<"name">>, JStr(<<"b.txt">>)>>,
          <<<<"size">>, JNum(20)>>, <<<<"timestamp">>, JNum(5)>> >>)
Entry_Both ==
  JObj(<< <<<<"cid">>, JStr(<<"x">>)>>, <<<<"fileCid">>, JStr(<<"y">>)>>,
          <<<<"filename">>, JStr(<<"a.txt">>)>>, <<<<"name">>, JStr(<<"b.txt">>)>>,
          <<<<"fileSize">>, JNum(10)>>, <<<<"size">>, JNum(20)>> >>)
Entry_EmptyFile ==
  JObj(<< <<<<"cid">>, JStr(<<"z">>)>>, <<<<"filename">>, JStr(<<"c.txt">>)>>,
          <<<<"fileSize">>, JNum(0)>>, <<<<"isEncrypted">>, JBool(TRUE)>> >>)
Entry_NoFields == JObj(<<>>)
Entries == {Entry_Current, Entry_Legacy, Entry_Both, Entry_EmptyFile, Entry_NoFields}
EntryLists == UNION {[1..k -> Entries] : k \in 0..MaxEntries}
ServerMessage == <<<<"message">>, JStr(<<"server", "message">>)>>
ListBodies ==
  UNION { { JArr(l),
            JObj(<< <<<<"files">>, JArr(l)>> >>),
            JObj(<< <<<<"data">>, JArr(l)>> >>),
            JObj(<< <<<<"success">>, JBool(TRUE)>>, <<<<"data">>, JArr(l)>> >>),
            JObj(<< <<<<"data">>, JObj(<< <<<<"files">>, JArr(l)>> >>)>> >>) }
          : l \in EntryLists }
    \cup {JNull, JObj(<<>>), JObj(<<ServerMessage>>), JStr(<<"ok">>), JNum(0)}
ListResponses ==
  {NetworkError, NotJson(TRUE), Json(FALSE, JObj(<<>>)), Json(FALSE, JObj(<<ServerMessage>>))}
    \cup {Json(TRUE, b) : b \in ListBodies}
DeleteResponses ==
  {NetworkError, NotJson(TRUE), NotJson(FALSE)}
    \cup {Json(ok, b) : ok \in BOOLEAN, b \in {JNull, JObj(<<>>), JObj(<<ServerMessage>>)}}
Cids == {"x", "y"}

\* C8: with test mode off and no token, clearUserFiles and deleteFile return
\* success:false with a message that starts "Authentication required" and hand
\* no request to fetch; in test mode the call hands its request to fetch
C8_AuthGate ==
  fsCall.op \in {"clearUserFiles", "deleteFile"} =>
    /\ (~fsCall.useTestMode /\ fsCall.token \in {NullToken, ""}) =>
          /\ fsPc = "done"
          /\ fsSent = <<>>
          /\ ~fsResult.success
          /\ Len(fsResult.message) >= 2
          /\ SubSeq(fsResult.message, 1, 2) = <<"Authentication", "required">>
    /\ fsCall.useTestMode =>
          /\ Len(fsSent) = 1
          /\ fsSent[1].method = "DELETE"
          /\ (fsPc = "done" => fsResult.message \notin
                {<<"Authentication", "required", "to", "delete", "files">>,
                 <<"Authentication", "required", "to", "delete", "file">>})
C8_Witness ==
  /\ fsCall.op = "deleteFile"
  /\ ~fsCall.useTestMode
  /\ fsCall.token = ""
  /\ fsPc = "done"
  /\ fsSent = <<>>
C8_WitnessTestMode ==
  /\ fsCall.op = "clearUserFiles"
  /\ fsCall.useTestMode
  /\ fsCall.token = NullToken
  /\ fsPc = "done"
  /\ fsResult.success

\* the array the claim speaks of: under files, under data, or the body itself
ClaimedArray(body) ==
  IF Prop(body, <<"files">>).t = "arr" THEN Prop(body, <<"files">>)
  ELSE IF Prop(body, <<"data">>).t = "arr" THEN Prop(body, <<"data">>)
  ELSE IF body.t = "arr" THEN body
  ELSE JUndefined
\* "a else b": a when the entry has it, else b
Else(a, b) == IF a.t # "undefined" THEN a ELSE b

\* C9: for a 2xx response whose file array is under files, under data, or is
\* the body itself, getUserFiles returns success:true with one FileMetadata
\* per entry in the same order, with cid = cid else fileCid, filename =
\* filename else name, fileSize = fileSize else size and isOwner = true; a
\* body in which none of these is an array gives success:false and no files
C9_ListNormalization ==
  (fsPc = "done" /\ fsCall.op = "getUserFiles" /\ fsResponse.kind = "json" /\ fsResponse.ok) =>
    LET list == ClaimedArray(fsResponse.body)
    IN  IF list.t = "arr"
          THEN /\ fsResult.success
               /\ Len(fsResult.files) = Len(list.v)
               /\ \A n \in 1..Len(list.v) :
                    /\ fsResult.files[n].cid =
                         Else(Prop(list.v[n], <<"cid">>), Prop(list.v[n], <<"fileCid">>))
                    /\ fsResult.files[n].filename =
                         Else(Prop(list.v[n], <<"filename">>), Prop(list.v[n], <<"name">>))
                    /\ fsResult.files[n].fileSize =
                         Else(Prop(list.v[n], <<"fileSize">>), Prop(list.v[n], <<"size">>))
                    /\ fsResult.files[n].isOwner
          ELSE ~fsResult.success /\ fsResult.files = <<>>

(***************************************************************************)
(* FileService.uploadFile                                                  *)
(***************************************************************************)
NoKeys == [set |-> FALSE, publicKey |-> <<>>, secretKey |-> <<>>]
Keys(publicKey, secretKey) == [set |-> TRUE, publicKey |-> publicKey, secretKey |-> secretKey]
\* the optional encryptionData argument
NoEncryptionData == [set |-> FALSE, encryptedFile |-> <<>>, encryptionKeys |-> NoKeys]

\* variant: the form also carries the secret key
UploadRequest_WithKeys(bytes, tok, testMode, encryptionData) ==
  Request("POST", IF testMode THEN <<"file", "upload-test">> ELSE <<"file", "upload">>, tok,
          IF encryptionData.set
            THEN encryptionData.encryptedFile
                   \o TextEncode(encryptionData.encryptionKeys.secretKey)
          ELSE bytes)
\* the request uploadFile hands to fetch: the form's file is the encrypted
\* file when encryptionData was passed, else the file
UploadRequest(bytes, tok, testMode, encryptionData) ==
  Request("POST", IF testMode THEN <<"file", "upload-test">> ELSE <<"file", "upload">>, tok,
          IF encryptionData.set THEN encryptionData.encryptedFile ELSE bytes)

\* { success: false, message }
FailureResult(message) ==
  JObj(<< <<<<"success">>, JBool(FALSE)>>, <<<<"message">>, JStr(message)>> >>)

\* { ...result.data, encryptionKeys, isEncrypted: true }
WithEncryption(body, encryptionKeys) ==
  JObj(body.v \o << <<<<"data">>,
         JObj(Prop(body, <<"data">>).v \o
              << <<<<"encryptionKeys">>,
                   JObj(<< <<<<"publicKey">>, JStr(encryptionKeys.publicKey)>>,
                           <<<<"secretKey">>, JStr(encryptionKeys.secretKey)>> >>)>>,
                 <<<<"isEncrypted">>, JBool(TRUE)>> >>)>> >>)

\* uploadFile after its fetch settled
uploadFileResult(encryptionData, resp) ==
  IF resp.kind # "json" THEN FailureResult(Unusable(resp))
  ELSE LET body == resp.body
       IN  IF ~resp.ok
             THEN IF Nullish(body) THEN FailureResult(Words_TypeError)
                  ELSE FailureResult(MessageOr(body, <<"Upload", "failed">>))
           ELSE IF encryptionData.set
             THEN IF Nullish(body) THEN FailureResult(Words_TypeError)
                  ELSE IF JsTruthy(Prop(body, <<"data">>))
                    THEN WithEncryption(body, encryptionData.encryptionKeys)
                  ELSE body
           ELSE body

(***************************************************************************)
(* FileUpload: attached files, uploadSingleFile, handleUploadAll           *)
(***************************************************************************)
\* files attached at the same time
MaxFiles == 2
\* last value of the clock that stamps the ids
MaxClock == 2

\* variant: a token alone authenticates
isAuthenticated_TokenOnly == TokenSet(token)
\* AuthContext: isAuthenticated
isAuthenticated == TokenSet(token) /\ user /\ ~useTestMode

NoRun ==
  [ pc |-> "idle", files |-> <<>>, i |-> 0, successCount |-> 0, errorCount |-> 0,
    isReady |-> FALSE, useTestMode |-> FALSE, isAuthenticated |-> FALSE,
    token |-> NullToken ]

UploadIdle ==
  /\ useTestMode = FALSE
  /\ token = NullToken
  /\ user = FALSE
  /\ hookInitializing = FALSE
  /\ hookReady = FALSE
  /\ attachedFiles = <<>>
  /\ globalUploading = FALSE
  /\ clock = 0
  /\ run = NoRun
  /\ calls = <<>>

\* the states AuthContext can be in: test mode holds no token
UploadInit ==
  /\ useTestMode \in BOOLEAN
  /\ token \in (IF useTestMode THEN {NullToken} ELSE {NullToken, "jwt"})
  /\ user \in BOOLEAN
  /\ hookInitializing = FALSE
  /\ hookReady = FALSE
  /\ attachedFiles = <<>>
  /\ globalUploading = FALSE
  /\ clock = 0
  /\ run = NoRun
  /\ calls = <<>>

\* useSealEncryption.initializeService up to `await initialize()`
HookInitialize ==
  /\ ~hookReady /\ ~hookInitializing
  /\ hookInitializing' = TRUE
  /\ CallInitialize(1)
  /\ UNCHANGED <<useTestMode, token, user, hookReady, attachedFiles, globalUploading,
                 clock, run, calls, ruleVars, bulkVars, fileVars, authVars, viewerVars, accessVars>>

\* initializeService after the await: isReady is what the service reports
HookInitialized ==
  /\ hookInitializing
  /\ pc[1] = "done" /\ op[1] = "initialize"
  /\ hookInitializing' = FALSE
  /\ hookReady' = isReady
  /\ UNCHANGED <<useTestMode, token, user, attachedFiles, globalUploading, clock, run,
                 calls, sealVars, ruleVars, bulkVars, fileVars, authVars, viewerVars, accessVars>>

\* addFilesToAttached: ids are `${Date.now()}-${index}`; each selection of
\* files is a user event of its own and reads a later time than the one before
AddFiles(list, now) ==
  /\ ~globalUploading
  /\ now > clock
  /\ Len(attachedFiles) + Len(list) <= MaxFiles
  /\ clock' = now
  /\ attachedFiles' = attachedFiles \o
       [n \in 1..Len(list) |->
          [ id |-> <<now, n - 1>>, file |-> list[n], uploaded |-> FALSE,
            uploading |-> FALSE, uploadResult |-> JUndefined ]]
  /\ UNCHANGED <<useTestMode, token, user, hookInitializing, hookReady, globalUploading,
                 run, calls, sealVars, ruleVars, bulkVars, fileVars, authVars, viewerVars, accessVars>>

\* removeFile, from the X button of a file that is neither uploaded nor
\* uploading; the button is disabled during a run
RemoveFile(id) ==
  /\ ~globalUploading
  /\ \E n \in 1..Len(attachedFiles) :
       /\ attachedFiles[n].id = id
       /\ ~attachedFiles[n].uploaded /\ ~attachedFiles[n].uploading
  /\ attachedFiles' = SelectSeq(attachedFiles, LAMBDA f : f.id # id)
  /\ UNCHANGED <<useTestMode, token, user, hookInitializing, hookReady, globalUploading,
                 clock, run, calls, sealVars, ruleVars, bulkVars, fileVars, authVars, viewerVars, accessVars>>

\* variant: every row is marked uploading
SetUploading_Every(list, id) == [n \in 1..Len(list) |-> [list[n] EXCEPT !.uploading = TRUE]]
\* setAttachedFiles(prev => prev.map(f => f.id === id ? {...f, uploading: true} : f))
SetUploading(list, id) ==
  [n \in 1..Len(list) |->
     IF list[n].id = id THEN [list[n] EXCEPT !.uploading = TRUE] ELSE list[n]]
\* variant: the status update leaves the uploading flag on
SetResult_KeepsUploading(list, id, uploaded, res) ==
  [n \in 1..Len(list) |->
     IF list[n].id = id
       THEN [list[n] EXCEPT !.uploaded = uploaded, !.uploadResult = res]
     ELSE list[n]]
\* the status update after uploadSingleFile settled
SetResult(list, id, uploaded, res) ==
  [n \in 1..Len(list) |->
     IF list[n].id = id
       THEN [list[n] EXCEPT !.uploading = FALSE, !.uploaded = uploaded, !.uploadResult = res]
     ELSE list[n]]

\* one uploadSingleFile invocation: its locals and what it did
NewCall(f, r) ==
  [ id |-> f.id, isReady |-> r.isReady, allowed |-> r.useTestMode \/ r.isAuthenticated, original |-> f.file, fileToUpload |-> f.file, isEncrypted |-> FALSE,
    encryptionKeys |-> NoKeys, encryption |-> "none", uploadCalls |-> <<>>,
    sent |-> <<>>, settled |-> FALSE, returned |-> JUndefined ]

\* variant: encryptionData is passed whatever the encryption did
EncryptionDataFor_Always(isEncrypted, encryptionKeys, fileToUpload) ==
  [set |-> TRUE, encryptedFile |-> fileToUpload, encryptionKeys |-> encryptionKeys]
\* `isEncrypted && encryptionKeys ? { encryptedFile, encryptionKeys } : undefined`
EncryptionDataFor(isEncrypted, encryptionKeys, fileToUpload) ==
  IF isEncrypted /\ encryptionKeys.set
    THEN [set |-> TRUE, encryptedFile |-> fileToUpload, encryptionKeys |-> encryptionKeys]
  ELSE NoEncryptionData

\* uploadSingleFile from the encryption's outcome to `await fetch` inside
\* fileService.uploadFile(attachedFile.file, token, useTestMode, encryptionData)
CallUploadFile(c, r) ==
  LET encryptionData == EncryptionDataFor(c.isEncrypted, c.encryptionKeys, c.fileToUpload)
  IN  [c EXCEPT
         !.uploadCalls = Append(@, [ file |-> c.original, token |-> r.token,
                                     useTestMode |-> r.useTestMode,
                                     encryptionData |-> encryptionData ]),
         !.sent = Append(@, UploadRequest(c.original, r.token, r.useTestMode, encryptionData))]

\* variant: the loop does not skip the uploaded files
Pending_All(files, k) == k..Len(files)
\* `if (attachedFile.uploaded) continue`: the entries from k on the loop works on
Pending(files, k) == {j \in k..Len(files) : ~files[j].uploaded}

\* the for loop of handleUploadAll from entry k of its attachedFiles on, up
\* to the next await: the end of the run, or the next file that is not
\* uploaded, marked uploading and handed to uploadSingleFile, which runs up
\* to its own first await
Advance(list, r, cs, k) ==
  LET rest == Pending(r.files, k)
  IN  IF rest = {}
        THEN /\ attachedFiles' = list
             /\ globalUploading' = FALSE
             /\ run' = [NoRun EXCEPT !.successCount = r.successCount,
                                      !.errorCount = r.errorCount]
             /\ calls' = cs
             /\ UNCHANGED sealVars
      ELSE LET j == Min(rest)
               f == r.files[j]
           IN  /\ attachedFiles' = SetUploading(list, f.id)
               /\ globalUploading' = TRUE
               /\ IF ~r.useTestMode /\ ~r.isAuthenticated
                    THEN /\ run' = [r EXCEPT !.pc = "rejected", !.i = j]
                         /\ calls' = Append(cs, NewCall(f, r))
                         /\ UNCHANGED sealVars
                  ELSE IF r.isReady
                    THEN /\ run' = [r EXCEPT !.pc = "encrypting", !.i = j]
                         /\ calls' = Append(cs, NewCall(f, r))
                         /\ CallEncrypt(1, f.file)
                  ELSE /\ run' = [r EXCEPT !.pc = "fetching", !.i = j]
                       /\ calls' = Append(cs, CallUploadFile(NewCall(f, r), r))
                       /\ UNCHANGED sealVars

\* handleUploadAll, from the Start Upload button, which is enabled while no
\* run is on and some attached file is not uploaded
StartUpload ==
  /\ ~globalUploading
  /\ \E n \in 1..Len(attachedFiles) : ~attachedFiles[n].uploaded
  /\ Advance(attachedFiles,
             [ pc |-> "idle", files |-> attachedFiles, i |-> 0, successCount |-> 0,
               errorCount |-> 0, isReady |-> hookReady, useTestMode |-> useTestMode,
               isAuthenticated |-> isAuthenticated, token |-> token ], <<>>, 1)
  /\ UNCHANGED <<useTestMode, token, user, hookInitializing, hookReady, clock,
                 ruleVars, bulkVars, fileVars, authVars, viewerVars, accessVars>>

\* the hook's encryptFile returned: uploadSingleFile takes the encrypted file
\* and the keys, or keeps the original, and calls fileService.uploadFile
EncryptReturns ==
  /\ run.pc = "encrypting"
  /\ pc[1] = "done" /\ op[1] = "encrypt"
  /\ LET r == result[1]
         c == calls[Len(calls)]
         d == IF r.success
                THEN [c EXCEPT !.fileToUpload = r.data, !.isEncrypted = TRUE,
                               !.encryptionKeys = Keys(r.publicKey, r.secretKey),
                               !.encryption = "done"]
              ELSE [c EXCEPT !.encryption = "failed"]
     IN  calls' = [calls EXCEPT ![Len(calls)] = CallUploadFile(d, run)]
  /\ run' = [run EXCEPT !.pc = "fetching"]
  /\ UNCHANGED <<useTestMode, token, user, hookInitializing, hookReady, attachedFiles,
                 globalUploading, clock, sealVars, ruleVars, bulkVars, fileVars, authVars, viewerVars, accessVars>>

\* what uploadSingleFile returns for what uploadFile returned
SingleResult(res) ==
  IF Nullish(res) THEN FailureResult(Words_TypeError)
  ELSE IF ~JsTruthy(Prop(res, <<"success">>))
    THEN FailureResult(MessageOr(res, <<"Upload", "failed">>))
  ELSE res

\* variant: only a returned failure is counted, not a thrown one
Counted_ReturnedOnly(r, ok) ==
  [r EXCEPT !.successCount = IF ok THEN @ + 1 ELSE @,
            !.errorCount = IF ok \/ r.pc = "rejected" THEN @ ELSE @ + 1]
\* the loop's bookkeeping for one file: successCount++ after a result with
\* success, errorCount++ after any other result and in the catch block
Counted(r, ok) ==
  [r EXCEPT !.successCount = IF ok THEN @ + 1 ELSE @,
            !.errorCount = IF ok THEN @ ELSE @ + 1]

\* the awaited fetch settles: uploadFile and uploadSingleFile return, the
\* file's status is written and the loop goes on
UploadSettles(resp) ==
  /\ run.pc = "fetching"
  /\ \E c \in {calls[Len(calls)]} :
       \E res \in {SingleResult(
                     uploadFileResult(c.uploadCalls[Len(c.uploadCalls)].encryptionData,
                                      resp))} :
         \E ok \in {JsTruthy(Prop(res, <<"success">>))} :
           \E counted \in {Counted(run, ok)},
              written \in {SetResult(attachedFiles, c.id, ok, res)},
              settled \in {[calls EXCEPT ![Len(calls)] = [c EXCEPT !.settled = TRUE,
                                                                    !.returned = res]]} :
             Advance(written, counted, settled, run.i + 1)
  /\ UNCHANGED <<useTestMode, token, user, hookInitializing, hookReady, clock,
                 ruleVars, bulkVars, fileVars, authVars, viewerVars, accessVars>>

\* uploadSingleFile rejected with 'Please log in to upload files': the catch
\* block of the loop writes the failure and the loop goes on
UploadRejected ==
  /\ run.pc = "rejected"
  /\ LET c == calls[Len(calls)]
     IN  Advance(SetResult(attachedFiles, c.id, FALSE,
                           FailureResult(<<"Please", "log", "in", "to", "upload", "files">>)),
                 Counted(run, FALSE),
                 [calls EXCEPT ![Len(calls)] = [c EXCEPT !.settled = TRUE]],
                 run.i + 1)
  /\ UNCHANGED <<useTestMode, token, user, hookInitializing, hookReady, clock,
                 ruleVars, bulkVars, fileVars, authVars, viewerVars, accessVars>>

\* what the backend answers an upload with
UploadData == <<<<"data">>, JObj(<< <<<<"fileCid">>, JStr(<<"c1">>)>> >>)>>
UploadResponses ==
  { NetworkError, Json(TRUE, JNull),
    Json(TRUE, JObj(<< <<<<"success">>, JBool(TRUE)>>, UploadData, ServerMessage >>)),
    Json(TRUE, JObj(<< <<<<"success">>, JBool(TRUE)>> >>)),
    Json(TRUE, JObj(<< <<<<"success">>, JBool(FALSE)>>, ServerMessage >>)),
    Json(FALSE, JObj(<<>>)) }
UploadFiles == {<<240, 159>>}
FileLists == UNION {[1..k -> UploadFiles] : k \in 1..MaxFiles}
Ids == (0..MaxClock) \X (0..(MaxFiles - 1))

\* the invocation fell back: the adapter was not ready when the run began,
\* or the hook's encryptFile returned success:false
FellBack(c) == ~c.isReady \/ c.encryption = "failed"
\* fileService.uploadFile was called once, with the original file and no
\* encryptionData, and the result carries no isEncrypted or encryptionKeys
UploadedPlain(c) ==
  /\ Len(c.uploadCalls) = 1
  /\ c.uploadCalls[1].file = c.original
  /\ ~c.uploadCalls[1].encryptionData.set
  /\ Len(c.sent) = 1
  /\ c.sent[1].body = c.original
  /\ \A key \in {<<"isEncrypted">>, <<"encryptionKeys">>} :
       /\ Prop(c.returned, key) = JUndefined
       /\ Prop(Prop(c.returned, <<"data">>), key) = JUndefined

\* C7 as stated: every uploadSingleFile invocation that fell back called
\* fileService.uploadFile once with the original file and no encryptionData
C7_FallbackAlwaysUploads ==
  \A n \in 1..Len(calls) :
    (calls[n].settled /\ FellBack(calls[n])) => UploadedPlain(calls[n])

\* C7: in test mode or when authenticated, every uploadSingleFile invocation
\* that fell back (adapter not ready, or encryptFile failed) called
\* fileService.uploadFile once with the original file and no encryptionData,
\* and its result carries no isEncrypted and no encryptionKeys
C7_FallbackUploadsWhenAllowed ==
  \A n \in 1..Len(calls) :
    (calls[n].settled /\ FellBack(calls[n]) /\ calls[n].allowed) =>
      UploadedPlain(calls[n])
C7_Witness ==
  \E n \in 1..Len(calls) :
    /\ calls[n].settled
    /\ calls[n].isReady /\ calls[n].allowed
    /\ calls[n].encryption = "failed"
    /\ UploadedPlain(calls[n])
    /\ JsTruthy(Prop(calls[n].returned, <<"success">>))

\* the attached files that show as uploading
Uploading == {n \in 1..Len(attachedFiles) : attachedFiles[n].uploading}
\* the upload requests that were sent and are not answered yet
Outstanding ==
  {n \in 1..Len(calls) : calls[n].sent # <<>> /\ ~calls[n].settled}

\* C13: at most one attached file is uploading and at most one upload request
\* is outstanding; every uploadSingleFile invocation but the last of the run
\* has settled, sent at most one request, and its file's status is written
\* back (not uploading any more, uploaded as the invocation returned)
C13_SequentialBatch ==
  /\ Cardinality(Uploading) <= 1
  /\ Cardinality(Outstanding) <= 1
  /\ \A n \in 1..Len(calls) :
       /\ Len(calls[n].sent) <= 1
       /\ n < Len(calls) => calls[n].settled
       /\ calls[n].settled =>
            \A k \in 1..Len(attachedFiles) :
              attachedFiles[k].id = calls[n].id =>
                /\ ~attachedFiles[k].uploading
                /\ attachedFiles[k].uploaded =
                     JsTruthy(Prop(attachedFiles[k].uploadResult, <<"success">>))
  /\ \A k \in Uploading :
       /\ globalUploading
       /\ calls # <<>> /\ ~calls[Len(calls)].settled
       /\ calls[Len(calls)].id = attachedFiles[k].id
\* the first file of a run is uploaded and the second one's request is out
C13_Witness ==
  /\ Len(calls) = 2 /\ Len(attachedFiles) = 2
  /\ calls[1].settled /\ attachedFiles[1].uploaded /\ ~attachedFiles[1].uploading
  /\ attachedFiles[2].uploading /\ Outstanding = {2}

\* what the row of an attached file shows
Status(f) ==
  IF f.uploading THEN "uploading"
  ELSE IF f.uploaded THEN "uploaded"
  ELSE IF f.uploadResult = JUndefined THEN "queued"
  ELSE "failed"
\* the invocations of the run so far that worked on the file
Attempts(cs, id) == {n \in 1..Len(cs) : cs[n].id = id}
\* one step of an attached file
FileStep(f, g) ==
  \/ Status(g) = Status(f)
  \/ /\ Status(f) \in {"queued", "failed"} /\ Status(g) = "uploading"
     /\ Cardinality(Attempts(calls', f.id)) = 1
     /\ Status(f) = "failed" => (~globalUploading \/ Attempts(calls, f.id) = {})
  \/ Status(f) = "uploading" /\ Status(g) \in {"uploaded", "failed"}

\* C14: an attached file only steps queued -> uploading -> uploaded or
\* queued -> uploading -> failed; a failed file steps to uploading only in a
\* run that had not worked on it, and no run works on a file twice
C14_FileStateMachine ==
  /\ [](\A n \in 1..Len(calls) : Attempts(calls, calls[n].id) = {n})
  /\ [][\A k \in 1..Len(attachedFiles), j \in 1..Len(attachedFiles') :
          attachedFiles[k].id = attachedFiles'[j].id =>
            FileStep(attachedFiles[k], attachedFiles'[j])]_vars
\* a new run works on a file that failed in the run before, next to a file
\* that is uploaded
C14_Witness ==
  \E k, j \in 1..Len(attachedFiles) :
    /\ attachedFiles[k].uploading
    /\ attachedFiles[k].uploadResult # JUndefined
    /\ ~JsTruthy(Prop(attachedFiles[k].uploadResult, <<"success">>))
    /\ Status(attachedFiles[j]) = "uploaded"

\* the step hands a file to uploadSingleFile
NewCallStep ==
  /\ calls' # <<>> /\ ~calls'[Len(calls')].settled
  /\ calls = <<>> \/ calls[Len(calls)].settled

\* C27: no attached file is uploading and uploaded at once, and the file a
\* step hands to uploadSingleFile is not uploaded
C27_FlagsConsistent ==
  /\ [](\A k \in 1..Len(attachedFiles) :
          ~(attachedFiles[k].uploading /\ attachedFiles[k].uploaded))
  /\ [][NewCallStep =>
          \A k \in 1..Len(attachedFiles) :
            attachedFiles[k].id = calls'[Len(calls')].id => ~attachedFiles[k].uploaded]_vars
\* a later run works on the second file next to the first one, uploaded by
\* an earlier run
C27_Witness ==
  /\ Len(attachedFiles) = 2 /\ Len(calls) = 1
  /\ attachedFiles[1].uploaded /\ ~attachedFiles[1].uploading
  /\ attachedFiles[2].uploading /\ ~attachedFiles[2].uploaded
  /\ calls[1].id = attachedFiles[2].id

\* the step is the end of a handleUploadAll run: setGlobalUploading(false)
\* and the two toasts, which show the counts the run leaves
RunEnds == globalUploading /\ ~globalUploading'

\* C25: a run whose upload calls all return or throw ends with
\* globalUploading false and no file uploading; at its end every
\* uploadSingleFile invocation has settled, and successCount + errorCount is
\* the number of files that were not uploaded when the run began, a
\* rejected 'Please log in to upload files' included
C25_BatchCompletion ==
  /\ globalUploading ~> (~globalUploading /\ Uploading = {})
  /\ [](~globalUploading => Uploading = {})
  /\ [][RunEnds =>
          /\ run'.successCount + run'.errorCount = Cardinality(Pending(run.files, 1))
          /\ Len(calls') = Cardinality(Pending(run.files, 1))
          /\ \A n \in 1..Len(calls') : calls'[n].settled
          /\ run'.errorCount >= Cardinality({n \in 1..Len(calls') : ~calls'[n].allowed})]_vars
\* a run of two files ended with one success and one failure
C25_Witness ==
  /\ ~globalUploading
  /\ Len(calls) = 2
  /\ run.successCount = 1 /\ run.errorCount = 1
  /\ Uploading = {}
\* a run of a logged-out user ended: both rejections were counted
C25_WitnessRejected ==
  /\ ~globalUploading
  /\ Len(calls) = 2
  /\ ~calls[1].allowed
  /\ run.successCount = 0 /\ run.errorCount = 2

\* needle is a run of consecutive elements of hay
Contains(hay, needle) ==
  \E i \in 0..(Len(hay) - Len(needle)) : SubSeq(hay, i + 1, i + Len(needle)) = needle
\* the encryption members uploadFile puts into result.data
LocalKeys(c) ==
  [ encryptionKeys |-> Prop(Prop(c.returned, <<"data">>), <<"encryptionKeys">>),
    isEncrypted |-> Prop(Prop(c.returned, <<"data">>), <<"isEncrypted">>) ]

\* C15: every upload request is a POST of the original or the encrypted file
\* to one of the two upload endpoints with at most the bearer token as
\* Authorization; the secretKey encryptFile returned does not occur in the
\* body; and the result of a
\* settled invocation carries encryptionKeys and isEncrypted in its data
\* exactly when the file was encrypted and the result has data
C15_SecretKeyStaysLocal ==
  \A n \in 1..Len(calls) :
    LET c == calls[n]
    IN  /\ \A i \in 1..Len(c.sent) :
             /\ c.sent[i].method = "POST"
             /\ c.sent[i].body = (IF c.isEncrypted THEN c.fileToUpload ELSE c.original)
             /\ c.sent[i].authorization \in {<<>>, <<"Bearer", "jwt">>}
             /\ c.sent[i].endpoint \in {<<"file", "upload">>, <<"file", "upload-test">>}
             /\ c.encryptionKeys.set =>
                  ~Contains(c.sent[i].body, TextEncode(c.encryptionKeys.secretKey))
        /\ ~c.settled => c.returned = JUndefined
        /\ c.settled =>
             IF c.isEncrypted /\ JsTruthy(Prop(c.returned, <<"data">>))
               THEN LocalKeys(c) =
                      [ encryptionKeys |->
                          JObj(<< <<<<"publicKey">>, JStr(c.encryptionKeys.publicKey)>>,
                                  <<<<"secretKey">>, JStr(c.encryptionKeys.secretKey)>> >>),
                        isEncrypted |-> JBool(TRUE) ]
             ELSE LocalKeys(c) = [encryptionKeys |-> JUndefined, isEncrypted |-> JUndefined]
\* an encrypted file was uploaded and its result carries the keys
C15_Witness ==
  \E n \in 1..Len(calls) :
    /\ calls[n].settled /\ calls[n].isEncrypted /\ Len(calls[n].sent) = 1
    /\ calls[n].sent[1].authorization = <<"Bearer", "jwt">>
    /\ calls[n].sent[1].body # calls[n].original
    /\ LocalKeys(calls[n]).isEncrypted = JBool(TRUE)
    /\ Prop(LocalKeys(calls[n]).encryptionKeys, <<"secretKey">>)
         = JStr(Chars_seal_secret_ \o <<"k", "1">>)

(***************************************************************************)
(* AuthService and AuthContext                                             *)
(***************************************************************************)
\* what the auth operations leave alone
notAuth == <<ruleVars, bulkVars, sealVars, fileVars, hookInitializing, hookReady,
             attachedFiles, globalUploading, clock, run, calls, viewerVars, accessVars>>

\* a storage item: absent, or the value its text parses to
NoItem == [set |-> FALSE, v |-> JNull]
Item(val) == [set |-> TRUE, v |-> val]
\* JSON.stringify of a flat object, read back: members that are undefined are
\* not written
Stringified(val) ==
  IF val.t = "obj" THEN JObj(SelectSeq(val.v, LAMBDA mbr : mbr[2].t # "undefined"))
  ELSE val

BasicKeys == << <<"zkLoginAddress">>, <<"provider">>, <<"email">>, <<"name">> >>
SensitiveKeys == << <<"ephemeralKeyPair">>, <<"zkLoginProof">>, <<"jwt">>, <<"userSalt">> >>
\* { k1: val.k1, k2: val.k2, ... }
Pick(val, keys) == JObj([i \in 1..Len(keys) |-> <<keys[i], Prop(val, keys[i])>>])
\* the names of an object's members
KeysOf(val) == IF val.t = "obj" THEN {val.v[i][1] : i \in 1..Len(val.v)} ELSE {}

EmptyLocal == [authToken |-> NullToken, authUser |-> NoItem, useTestMode |-> "null"]
EmptySession == [zkLoginParams |-> NoItem]
LoggedOut == [token |-> NullToken, user |-> JNull]

\* AuthProvider.login: localStorage.setItem('authUser', JSON.stringify(newUser))
StoreWholeUser(ls, u) == [ls EXCEPT !.authUser = Item(Stringified(u))]
\* storeUserData: basicUserInfo goes to localStorage
StoreLocal(ls, u) == [ls EXCEPT !.authUser = Item(Stringified(Pick(u, BasicKeys)))]
\* storeUserData: zkLoginParams go to sessionStorage when one of them is set
StoreSession(ss, u) ==
  IF \E i \in 1..Len(SensitiveKeys) : JsTruthy(Prop(u, SensitiveKeys[i]))
    THEN [ss EXCEPT !.zkLoginParams = Item(Stringified(Pick(u, SensitiveKeys)))]
  ELSE ss

\* variant: logout leaves authUser in localStorage
LogoutLocal_KeepsUser(ls) == [ls EXCEPT !.authToken = NullToken]
\* AuthService.logout: the localStorage items it removes
LogoutLocal(ls) == [ls EXCEPT !.authToken = NullToken, !.authUser = NoItem]
\* AuthService.logout: the sessionStorage item it removes
LogoutSession(ss) == [ss EXCEPT !.zkLoginParams = NoItem]

\* loadUserData: the user it returns and localStorage as it leaves it
loadUserData(ls, ss) ==
  IF ~ls.authUser.set THEN [user |-> JNull, ls |-> ls]
  ELSE LET u == ls.authUser.v
           params == ss.zkLoginParams.v
       IN  IF ~ss.zkLoginParams.set THEN [user |-> u, ls |-> ls]
           ELSE IF u.t # "obj"
             THEN [user |-> JNull, ls |-> [ls EXCEPT !.authUser = NoItem]]
           ELSE [ user |-> JObj(SelectSeq(u.v, LAMBDA mbr :
                                   \A i \in 1..Len(SensitiveKeys) : mbr[1] # SensitiveKeys[i])
                                 \o Pick(params, SensitiveKeys).v),
                  ls |-> ls ]
\* AuthService.getUser
getUser(svc, ls, ss) ==
  IF JsTruthy(svc.user) THEN [user |-> svc.user, ls |-> ls] ELSE loadUserData(ls, ss)
\* AuthService.isAuthenticated
AuthService_isAuthenticated == TokenSet(authService.token) /\ JsTruthy(authService.user)

\* the token a response carries
JToken == JStr(<<"j", "w", "t">>)
TokenOf(val) ==
  IF val = JToken THEN "jwt" ELSE IF val = JStr(<<>>) THEN "" ELSE NullToken

AuthIdle ==
  /\ authService = LoggedOut
  /\ localStorage = EmptyLocal
  /\ sessionStorage = EmptySession
  /\ mounted = FALSE
  /\ pending = {}
  /\ lastOp = "none"

\* AuthProvider's mount effect, with verifyTokenInternal up to the fetch of
\* authService.verifyToken
Mount ==
  /\ ~mounted
  /\ mounted' = TRUE
  /\ lastOp' = "mount"
  /\ LET savedToken == localStorage.authToken
         got == getUser(authService, localStorage, sessionStorage)
     IN  /\ token' = IF TokenSet(savedToken) THEN savedToken ELSE token
         /\ IF localStorage.authUser.set
              THEN /\ authService' = [authService EXCEPT !.user = got.user]
                   /\ user' = IF JsTruthy(got.user) THEN TRUE ELSE user
                   /\ localStorage' =
                        [(IF JsTruthy(got.user) THEN got.ls
                          ELSE [got.ls EXCEPT !.authUser = NoItem])
                           EXCEPT !.useTestMode = "false"]
            ELSE /\ localStorage' = [localStorage EXCEPT !.useTestMode = "false"]
                 /\ UNCHANGED <<authService, user>>
         /\ pending' = IF TokenSet(savedToken) /\ TokenSet(authService.token)
                         THEN pending \cup {"verifyToken"} ELSE pending
  /\ useTestMode' = FALSE
  /\ UNCHANGED <<sessionStorage, notAuth>>

\* authService.verifyToken after its fetch settled, and verifyTokenInternal
\* after it returned
VerifySettles(resp) ==
  /\ "verifyToken" \in pending
  /\ pending' = pending \ {"verifyToken"}
  /\ lastOp' = "verifyToken"
  /\ LET u == Prop(Prop(resp.body, <<"data">>), <<"user">>)
     IN  IF resp.kind # "json" \/ ~resp.ok \/ Nullish(u)
           THEN /\ authService' = LoggedOut
                /\ localStorage' = LogoutLocal(localStorage)
                /\ sessionStorage' = LogoutSession(sessionStorage)
                /\ token' = NullToken
                /\ user' = FALSE
         ELSE /\ authService' = [authService EXCEPT !.user = u]
              /\ localStorage' = StoreLocal(localStorage, u)
              /\ sessionStorage' = StoreSession(sessionStorage, u)
              /\ user' = JsTruthy(u)
              /\ UNCHANGED token
  /\ UNCHANGED <<useTestMode, mounted, notAuth>>

\* ZkLoginAuth calls authService.completeAuthentication, up to its fetch
CompleteCall ==
  /\ mounted
  /\ "completeAuthentication" \notin pending
  /\ pending' = pending \cup {"completeAuthentication"}
  /\ UNCHANGED <<authService, localStorage, sessionStorage, mounted, lastOp,
                 useTestMode, token, user, notAuth>>

\* AuthProvider.login: what it writes to localStorage
LoginLocal(ls, newToken, newUser) ==
  [StoreWholeUser(ls, newUser) EXCEPT !.authToken = newToken, !.useTestMode = "false"]

\* variant: the status of the response is not looked at
Rethrows_StatusIgnored(resp) ==
  resp.kind # "json" \/ Nullish(Prop(resp.body, <<"data">>))
\* completeAuthentication lands in its catch block before it stored anything:
\* fetch or response.json() rejected, `!response.ok`, or no data.data
Rethrows(resp) ==
  resp.kind # "json" \/ ~resp.ok \/ Nullish(Prop(resp.body, <<"data">>))
\* the fetch was rejected or answered non-2xx
HttpFailure(resp) == resp.kind = "network_error" \/ ~resp.ok

\* completeAuthentication after its fetch settled; when it returns, ZkLoginAuth
\* (which checks authResponse.success in the redirect flow only) hands
\* authResponse.data to AuthPage.handleZkLoginSuccess, which calls login
CompleteSettles(resp, redirect) ==
  /\ "completeAuthentication" \in pending
  /\ pending' = pending \ {"completeAuthentication"}
  /\ lastOp' = IF HttpFailure(resp) THEN "completeAuthentication failed"
               ELSE "completeAuthentication"
  /\ LET d == Prop(resp.body, <<"data">>)
         newToken == TokenOf(Prop(d, <<"token">>))
         u == Prop(d, <<"user">>)
     IN  IF Rethrows(resp)
           THEN UNCHANGED <<authService, localStorage, sessionStorage, useTestMode, token, user>>
         ELSE IF Nullish(u)
           THEN /\ authService' = [token |-> newToken, user |-> u]
                /\ localStorage' = IF TokenSet(newToken)
                                     THEN [localStorage EXCEPT !.authToken = newToken]
                                   ELSE localStorage
                /\ UNCHANGED <<sessionStorage, useTestMode, token, user>>
         ELSE /\ authService' = [token |-> newToken, user |-> u]
              /\ sessionStorage' = StoreSession(sessionStorage, u)
              /\ LET stored == StoreLocal(IF TokenSet(newToken)
                                            THEN [localStorage EXCEPT !.authToken = newToken]
                                          ELSE localStorage, u)
                 IN  IF redirect /\ ~JsTruthy(Prop(resp.body, <<"success">>))
                       THEN /\ localStorage' = stored
                            /\ UNCHANGED <<useTestMode, token, user>>
                     ELSE /\ localStorage' = LoginLocal(stored, newToken, u)
                          /\ token' = newToken
                          /\ user' = JsTruthy(u)
                          /\ useTestMode' = FALSE
  /\ UNCHANGED <<mounted, notAuth>>

\* AuthProvider.logout, from the app's logout button
Logout ==
  /\ mounted
  /\ lastOp' = "logout"
  /\ authService' = LoggedOut
  /\ localStorage' = [LogoutLocal(localStorage) EXCEPT !.useTestMode = "true"]
  /\ sessionStorage' = LogoutSession(sessionStorage)
  /\ token' = NullToken
  /\ user' = FALSE
  /\ useTestMode' = TRUE
  /\ UNCHANGED <<mounted, pending, notAuth>>

\* AuthProvider.handleSetUseTestMode
SetUseTestMode(useTest) ==
  /\ mounted
  /\ lastOp' = "setUseTestMode"
  /\ useTestMode' = useTest
  /\ localStorage' = [localStorage EXCEPT
                        !.useTestMode = IF useTest THEN "true" ELSE "false",
                        !.authToken = IF useTest THEN NullToken ELSE @]
  /\ token' = IF useTest THEN NullToken ELSE token
  /\ UNCHANGED <<authService, sessionStorage, mounted, pending, user, notAuth>>

\* users the backend sends
User_Basic ==
  JObj(<< <<<<"zkLoginAddress">>, JStr(<<"0", "x", "1">>)>>,
          <<<<"provider">>, JStr(<<"g", "h">>)>> >>)
User_Full ==
  JObj(User_Basic.v \o << <<<<"email">>, JStr(<<"a">>)>>,
                          <<<<"jwt">>, JStr(<<"j">>)>>,
                          <<<<"userSalt">>, JStr(<<"s">>)>> >>)
\* a second account, whose answers carry no zkLogin parameters
User_Second ==
  JObj(<< <<<<"zkLoginAddress">>, JStr(<<"0", "x", "2">>)>>,
          <<<<"provider">>, JStr(<<"g", "h">>)>> >>)
AuthBody(withSuccess, u) ==
  JObj((IF withSuccess THEN << <<<<"success">>, JBool(TRUE)>> >> ELSE <<>>)
       \o << <<<<"data">>, JObj(<< <<<<"token">>, JToken>>, <<<<"user">>, u>> >>)>> >>)
AuthResponses ==
  { NetworkError, Json(FALSE, JObj(<< ServerMessage >>)),
    Json(FALSE, AuthBody(TRUE, User_Full)), Json(TRUE, AuthBody(TRUE, User_Second)),
    Json(TRUE, AuthBody(TRUE, User_Basic)), Json(TRUE, AuthBody(TRUE, User_Full)),
    Json(TRUE, AuthBody(FALSE, User_Basic)), Json(TRUE, AuthBody(TRUE, JNull)) }

\* C16: AuthService.isAuthenticated() is true only with a token and a user in
\* the service, and AuthContext's isAuthenticated only with a token and a user
\* in the context and test mode off
C16_AuthenticatedHasBoth ==
  /\ AuthService_isAuthenticated =>
       authService.token # NullToken /\ ~Nullish(authService.user)
  /\ isAuthenticated => token # NullToken /\ user /\ ~useTestMode
\* both report an authenticated session
C16_Witness ==
  /\ AuthService_isAuthenticated /\ isAuthenticated
  /\ lastOp = "completeAuthentication"

\* C17 as stated: the authUser item holds no member besides zkLoginAddress,
\* provider, email and name
C17_SplitStorage ==
  localStorage.authUser.set =>
    KeysOf(localStorage.authUser.v) \subseteq {BasicKeys[i] : i \in 1..Len(BasicKeys)}

\* C18: right after logout the service and the context hold no token and no
\* user, the items authToken, authUser and zkLoginParams are gone, getUser()
\* returns null and isAuthenticated is false
C18_LogoutClears ==
  lastOp = "logout" =>
    /\ authService = LoggedOut
    /\ token = NullToken /\ ~user
    /\ localStorage.authToken = NullToken
    /\ ~localStorage.authUser.set
    /\ ~sessionStorage.zkLoginParams.set
    /\ getUser(authService, localStorage, sessionStorage).user = JNull
    /\ ~AuthService_isAuthenticated /\ ~isAuthenticated
\* logout ran on a session that had a token, a user and zkLogin parameters
\* stored, while a verification was still waiting
C18_Witness ==
  /\ lastOp = "logout"
  /\ "verifyToken" \in pending
  /\ authService = LoggedOut
  /\ ~localStorage.authUser.set

\* what an earlier visit left in the stores, and the AuthService constructed
\* on it
AuthInit ==
  /\ localStorage \in
       { EmptyLocal,
         [EmptyLocal EXCEPT !.authToken = "jwt"],
         StoreLocal([EmptyLocal EXCEPT !.authToken = "jwt"], User_Basic),
         StoreLocal(EmptyLocal, User_Full) }
  /\ sessionStorage \in
       (IF localStorage.authUser.set
          THEN {EmptySession, StoreSession(EmptySession, User_Full)}
        ELSE {EmptySession})
  /\ authService = [token |-> localStorage.authToken, user |-> JNull]
  /\ mounted = FALSE
  /\ pending = {}
  /\ lastOp = "none"

(***************************************************************************)
(* SharedFileViewer                                                        *)
(***************************************************************************)
\* validateShareLink and loadFileContent invocations of one viewer
MaxFlows == 3

\* what the viewer leaves alone
notViewer == <<ruleVars, bulkVars, sealVars, fileVars, uploadVars, authVars, accessVars>>

ViewerIdle ==
  /\ viewer = [ mounted |-> FALSE, loading |-> TRUE, error |-> FALSE, shareData |-> JNull,
                fileContent |-> FALSE, effectAuth |-> FALSE ]
  /\ flows = <<>>
  /\ validated = FALSE
  /\ granted = FALSE
  /\ downloads = <<>>

\* accessControlService.validateShareLink after its fetch settled
validateShareLinkResult(resp) ==
  IF resp.kind # "json" THEN AcFailure(Unusable(resp))
  ELSE IF Nullish(resp.body) THEN AcFailure(Words_TypeError)
  ELSE IF ~resp.ok
    THEN AcFailure(MessageOr(resp.body, <<"Failed", "to", "validate", "share", "link">>))
  ELSE [ success |-> TRUE,
         data |-> JObj(<< <<<<"fileCid">>, Prop(Prop(resp.body, <<"data">>), <<"fileCid">>)>>,
                          <<<<"accessGranted">>,
                            JsOr(Prop(Prop(resp.body, <<"data">>), <<"accessGranted">>),
                                 JBool(FALSE))>>,
                          <<<<"filename">>, Prop(Prop(resp.body, <<"data">>), <<"filename">>)>> >>),
         message |-> MessageOr(resp.body, <<"Share", "link", "validated", "successfully">>) ]

\* the fields of result.data that validateShareLink hands to setShareData
ShareLinkData(data) ==
  JObj(<< <<<<"fileCid">>, Prop(data, <<"fileCid">>)>>,
          <<<<"filename">>, Prop(data, <<"filename">>)>> >>)

\* what a validation gave: no success, a fileCid, or data without one
Outcome(res) ==
  IF ~res.success THEN "failed"
  ELSE IF JsTruthy(Prop(res.data, <<"fileCid">>)) THEN "data"
  ELSE "empty"

\* an invocation and what its closure holds: the isAuthenticated, token and
\* shareData of the render that created it
NewFlow(source, at) ==
  [ pc |-> at, source |-> source, isAuthenticated |-> isAuthenticated, token |-> token,
    shareData |-> viewer.shareData, outcome |-> "none" ]
\* validateShareLink up to its await: setLoading(true), setError(null)
StartValidation ==
  /\ flows' = Append(flows, NewFlow("effect", "validating"))
  /\ viewer' = [viewer EXCEPT !.mounted = TRUE, !.loading = TRUE, !.error = FALSE,
                              !.effectAuth = isAuthenticated]
  /\ UNCHANGED <<validated, granted, downloads, notViewer>>

\* App shows the viewer for the share link of the page's URL, after
\* AuthProvider's mount effect; the viewer's effect runs validateShareLink
ViewerMount ==
  /\ mounted /\ ~viewer.mounted
  /\ StartValidation
\* the effect runs again when isAuthenticated has changed
EffectDue == viewer.mounted /\ viewer.effectAuth # isAuthenticated
ViewerEffect ==
  /\ EffectDue
  /\ Len(flows) < MaxFlows
  /\ StartValidation

\* variant: loadFileContent does not look at shareData
PassesGuard_Always(c) == TRUE
\* loadFileContent: `if (!shareData?.fileCid) return`
PassesGuard(c) == JsTruthy(Prop(c.shareData, <<"fileCid">>))
\* fileService.downloadSharedFile up to its fetch
DownloadRequest(c, afterSuccess, decision) ==
  [ authorization |-> Authorization(c.token), source |-> c.source,
    authenticated |-> isAuthenticated /\ TokenSet(token), validated |-> afterSuccess,
    accessGranted |-> decision ]

\* validateShareLink after the service returned, up to the fetch of
\* downloadSharedFile or to its end
ValidateSettles(k, resp) ==
  /\ k \in 1..Len(flows) /\ flows[k].pc = "validating"
  /\ LET c == flows[k]
         res == validateShareLinkResult(resp)
     IN  IF ~res.success
           THEN /\ viewer' = [viewer EXCEPT !.error = TRUE, !.loading = FALSE]
                /\ flows' = [flows EXCEPT ![k] = [c EXCEPT !.pc = "done", !.outcome = "failed"]]
                /\ UNCHANGED <<validated, granted, downloads>>
         ELSE /\ validated' = TRUE
              /\ granted' = JsTruthy(Prop(res.data, <<"accessGranted">>))
              /\ IF c.isAuthenticated /\ TokenSet(c.token) /\ PassesGuard(c)
                   THEN /\ viewer' = [viewer EXCEPT !.shareData = ShareLinkData(res.data)]
                        /\ flows' = [flows EXCEPT ![k] =
                                       [c EXCEPT !.pc = "downloading", !.outcome = Outcome(res)]]
                        /\ downloads' = Append(downloads,
                             DownloadRequest(c, TRUE,
                                             JsTruthy(Prop(res.data, <<"accessGranted">>))))
                 ELSE /\ viewer' = [viewer EXCEPT !.shareData = ShareLinkData(res.data), !.loading = FALSE]
                      /\ flows' = [flows EXCEPT ![k] =
                                     [c EXCEPT !.pc = "done", !.outcome = Outcome(res)]]
                      /\ UNCHANGED downloads
  /\ UNCHANGED notViewer

\* variant: the Load File button does not depend on isAuthenticated
LoadFileShown_NoAuthGate ==
  /\ viewer.mounted /\ ~viewer.loading /\ ~viewer.error
  /\ ~viewer.fileContent /\ JsTruthy(viewer.shareData)
\* the render branches: the Load File button is behind the loading, error and
\* `!isAuthenticated` screens
LoadFileShown ==
  /\ viewer.mounted /\ ~viewer.loading /\ ~viewer.error
  /\ isAuthenticated
  /\ ~viewer.fileContent /\ JsTruthy(viewer.shareData)
\* the Load File button: loadFileContent of the current render
LoadFileClick ==
  /\ LoadFileShown /\ ~EffectDue
  /\ Len(flows) < MaxFlows
  /\ LET c == NewFlow("button", "downloading")
     IN  IF PassesGuard(c)
           THEN /\ flows' = Append(flows, c)
                /\ downloads' = Append(downloads, DownloadRequest(c, validated, granted))
         ELSE /\ flows' = Append(flows, [c EXCEPT !.pc = "done"])
              /\ UNCHANGED downloads
  /\ UNCHANGED <<viewer, validated, granted, notViewer>>

\* loadFileContent after downloadSharedFile returned; validateShareLink, when
\* it was the caller, ends with setLoading(false)
DownloadSettles(k, ok, filename) ==
  /\ k \in 1..Len(flows) /\ flows[k].pc = "downloading"
  /\ LET c == flows[k]
         renamed == JsTruthy(c.shareData) /\ Prop(c.shareData, <<"filename">>) # filename
     IN  /\ flows' = [flows EXCEPT ![k] = [c EXCEPT !.pc = "done"]]
         /\ viewer' =
              [viewer EXCEPT
                 !.fileContent = IF ok THEN TRUE ELSE @,
                 !.error = IF ok THEN @ ELSE TRUE,
                 !.shareData = IF ok /\ renamed
                                 THEN JObj(<< <<<<"fileCid">>, Prop(c.shareData, <<"fileCid">>)>>,
                                              <<<<"filename">>, filename>> >>)
                               ELSE @,
                 !.loading = IF c.source = "effect" THEN FALSE ELSE @]
  /\ UNCHANGED <<validated, granted, downloads, notViewer>>

\* what the backend answers a share-link validation with
ShareBody(fileCid) ==
  JObj(<< <<<<"data">>, JObj(<< <<<<"fileCid">>, fileCid>>,
                                <<<<"filename">>, JStr(<<"f">>)>> >>)>> >>)
\* the same with the backend's access decision
ShareBodyWith(fileCid, accessGranted) ==
  JObj(<< <<<<"data">>, JObj(<< <<<<"fileCid">>, fileCid>>,
                                <<<<"accessGranted">>, JBool(accessGranted)>>,
                                <<<<"filename">>, JStr(<<"f">>)>> >>)>> >>)
ShareResponses ==
  { NetworkError, Json(FALSE, JObj(<< ServerMessage >>)),
    Json(TRUE, ShareBody(JStr(<<"c", "1">>))), Json(TRUE, JObj(<<>>)),
    Json(TRUE, ShareBodyWith(JStr(<<"c", "1">>), TRUE)),
    Json(TRUE, ShareBodyWith(JStr(<<"c", "1">>), FALSE)) }
Filenames == {JStr(<<"f">>), JStr(<<"g">>)}

\* C19: every downloadSharedFile request was sent after validateShareLink had
\* returned success, by a viewer that was authenticated at that moment, with
\* its token; no invocation created by an unauthenticated render gets to the
\* download
C19_DownloadAfterValidation ==
  /\ \A n \in 1..Len(downloads) :
       /\ downloads[n].validated
       /\ downloads[n].authenticated
       /\ downloads[n].authorization = <<"Bearer", "jwt">>
  /\ \A k \in 1..Len(flows) :
       flows[k].pc = "downloading" => flows[k].isAuthenticated /\ TokenSet(flows[k].token)
  /\ downloads # <<>> => validated
\* the file was loaded after a download request
C19_Witness ==
  /\ Len(downloads) > 0
  /\ viewer.fileContent
  /\ \E k \in 1..Len(flows) : flows[k].outcome = "data" /\ ~flows[k].isAuthenticated

\* an invocation of an authenticated render got data with a fileCid from
\* validateShareLink
ValidatedWhileAuthenticated ==
  \E k \in 1..Len(flows) :
    /\ flows[k].source = "effect" /\ flows[k].outcome = "data"
    /\ flows[k].isAuthenticated /\ TokenSet(flows[k].token)
\* C20 as stated: once validateShareLink gave the file's data to an
\* authenticated viewer, the file content is loaded or an error is shown,
\* whether or not the user presses a button
C20_ViewerProgress ==
  ValidatedWhileAuthenticated ~> (viewer.fileContent \/ viewer.error)

(***************************************************************************)
(* AccessControlConfig and the AccessControlService calls it makes         *)
(***************************************************************************)
\* the browsers that show the form, and the submits they make in all
NumClients == 2
MaxSubmits == 2
Clients == 1..NumClients
RECURSIVE SubmitsUpTo(_, _)
SubmitsUpTo(fs, c) == IF c = 0 THEN 0 ELSE fs[c].submits + SubmitsUpTo(fs, c - 1)
FileCids == {"cidA", "cidB"}

\* what the access-control form leaves alone
notAccess == <<ruleVars, bulkVars, sealVars, fileVars, uploadVars, authVars, viewerVars>>

\* the state `error` and `success`: null, or what was set
NoText == [set |-> FALSE, v |-> <<>>]
Text(x) == [set |-> TRUE, v |-> x]

\* the component before its effect ran, with the locals of its last handleSubmit
NewForm ==
  [ pc |-> "unmounted", fileCid |-> "", loading |-> FALSE, loadingExisting |-> TRUE,
    existingAccessControl |-> JNull, error |-> NoText, success |-> NoText,
    accessRule |-> EmptyRule, validation |-> NotValidated, submits |-> 0 ]
NotReturned == [success |-> FALSE, pending |-> TRUE]
NoHttp == [method |-> "none", response |-> NoResponse, returned |-> NotReturned]
AccessIdle == forms = [c \in Clients |-> NewForm] /\ acSent = <<>> /\ http = NoHttp

\* `data.data?.transactionDigest`
TransactionDigest(data) ==
  JObj(<< <<<<"transactionDigest">>,
            Prop(Prop(data, <<"data">>), <<"transactionDigest">>)>> >>)

\* createAccessControl after its fetch settled
createAccessControlResult(resp) ==
  IF resp.kind # "json" THEN AcFailure(Unusable(resp))
  ELSE LET data == resp.body
       IN  IF Nullish(data) THEN AcFailure(Words_TypeError)
           ELSE IF ~resp.ok
             THEN AcFailure(MessageOr(data, <<"Failed", "to", "create", "access", "control">>))
           ELSE [ success |-> TRUE, data |-> TransactionDigest(data),
                  message |-> MessageOr(data, <<"Access", "control", "created",
                                                "successfully">>) ]

\* updateAccessControl after its fetch settled
updateAccessControlResult(resp) ==
  IF resp.kind # "json" THEN AcFailure(Unusable(resp))
  ELSE LET data == resp.body
       IN  IF Nullish(data) THEN AcFailure(Words_TypeError)
           ELSE IF ~resp.ok
             THEN AcFailure(MessageOr(data, <<"Failed", "to", "update", "access", "control">>))
           ELSE [ success |-> TRUE, data |-> TransactionDigest(data),
                  message |-> MessageOr(data, <<"Access", "control", "updated",
                                                "successfully">>) ]

\* getAccessControlInfo after its fetch settled
getAccessControlInfoResult(resp) ==
  IF resp.kind # "json" THEN AcFailure(Unusable(resp))
  ELSE LET data == resp.body
       IN  IF Nullish(data) THEN AcFailure(Words_TypeError)
           ELSE IF ~resp.ok
             THEN AcFailure(MessageOr(data, <<"Failed", "to", "get", "access", "control",
                                              "info">>))
           ELSE [ success |-> TRUE, data |-> Prop(data, <<"data">>),
                  message |-> MessageOr(data, <<"Access", "control", "information",
                                                "retrieved">>) ]

\* the request each method hands to fetch; the body is the fileCid and the rule
AcRequest(c, method, endpoint, tok, cid, accessRule) ==
  [ client |-> c, method |-> method, endpoint |-> endpoint,
    authorization |-> Authorization(tok), fileCid |-> cid, accessRule |-> accessRule ]
InfoRequest(c, cid) ==
  AcRequest(c, "GET",
            IF useTestMode THEN <<"access-control", cid, "test">>
            ELSE <<"access-control", cid>>,
            token, cid, EmptyRule)
WriteRequest(c, method, cid, accessRule) ==
  AcRequest(c, method,
            IF useTestMode THEN <<"access-control", "test">> ELSE <<"access-control">>,
            token, cid, accessRule)

\* `list.filter(s => s.trim() !== '')`, kept only when something is left
NonBlank(list) == SelectSeq(list, LAMBDA s : Trim(s) # <<>>)
ListOrUndefined(list) ==
  IF Len(NonBlank(list)) > 0 THEN Some(NonBlank(list)) ELSE UndefinedList

\* the form fields: the lists hold one text per input row; a time or a
\* number field is '' (set = FALSE) or the number its text stands for
MinuteMs == 60 * 1000
\* handleSubmit's "Build access rule"
BuildAccessRule(f) ==
  LET emailType == f.conditionType \in {"email", "hybrid"}
      walletType == f.conditionType \in {"wallet", "hybrid"}
      timeType == f.conditionType \in {"time", "hybrid"}
  IN  [ conditionType |-> f.conditionType,
        allowedEmails |-> IF emailType THEN ListOrUndefined(f.allowedEmails)
                          ELSE UndefinedList,
        allowedAddresses |-> IF walletType THEN ListOrUndefined(f.allowedAddresses)
                             ELSE UndefinedList,
        allowedSuiNS |-> IF walletType THEN ListOrUndefined(f.allowedSuiNS)
                         ELSE UndefinedList,
        accessStartTime |-> IF timeType /\ f.accessStartTime.set
                              THEN Some(f.accessStartTime.v) ELSE Undefined,
        accessEndTime |-> IF timeType /\ f.accessEndTime.set
                            THEN Some(f.accessEndTime.v) ELSE Undefined,
        maxAccessDuration |-> IF timeType /\ f.maxAccessDuration.set
                                THEN Some(f.maxAccessDuration.v * MinuteMs)
                              ELSE Undefined,
        maxAccessCount |-> IF f.maxAccessCount.set THEN Some(f.maxAccessCount.v)
                           ELSE Undefined ]

\* variant: every submit is a create
WriteMethod_AlwaysCreate(existing) == "POST"
\* `existingAccessControl ? updateAccessControl(...) : createAccessControl(...)`
WriteMethod(existing) == IF JsTruthy(existing) THEN "PUT" ELSE "POST"

\* variant: the rule is sent whatever validateAccessRule said
SubmitBlocked_Never(v) == FALSE
\* `if (!validation.valid) throw`
SubmitBlocked(v) == ~v.valid

\* the effect on mount: loadExistingAccessControl up to its await
FormMount(c, cid) ==
  /\ forms[c].pc = "unmounted"
  /\ forms' = [forms EXCEPT ![c].pc = "loading", ![c].fileCid = cid,
                            ![c].loadingExisting = TRUE]
  /\ acSent' = Append(acSent, InfoRequest(c, cid))
  /\ UNCHANGED <<http, notAccess>>

\* loadExistingAccessControl after getAccessControlInfo returned; when it
\* was awaited by handleSubmit, that handler's finally block follows
LoadSettles(c, resp) ==
  /\ forms[c].pc \in {"loading", "reloading"}
  /\ LET res == getAccessControlInfoResult(resp)
     IN  forms' = [forms EXCEPT
           ![c].existingAccessControl =
              IF res.success /\ JsTruthy(res.data) THEN res.data ELSE JNull,
           ![c].loadingExisting = FALSE,
           ![c].loading = FALSE,
           ![c].pc = "ready"]
  /\ UNCHANGED <<acSent, http, notAccess>>

\* handleSubmit up to `await createAccessControl / updateAccessControl`, or
\* through its catch and finally blocks when the rule is invalid
HandleSubmit(c, f) ==
  /\ forms[c].pc = "ready"
  /\ SubmitsUpTo(forms, NumClients) < MaxSubmits
  /\ LET accessRule == BuildAccessRule(f)
         v == validateAccessRule(accessRule)
         base == [forms[c] EXCEPT !.accessRule = accessRule, !.validation = v,
                                  !.success = NoText, !.submits = @ + 1]
     IN  IF SubmitBlocked(v)
           THEN /\ forms' = [forms EXCEPT ![c] =
                               [base EXCEPT !.error = Text(v.error), !.loading = FALSE]]
                /\ acSent' = acSent
           ELSE /\ forms' = [forms EXCEPT ![c] =
                               [base EXCEPT !.error = NoText, !.loading = TRUE,
                                            !.pc = "submitting"]]
                /\ acSent' = Append(acSent,
                     WriteRequest(c, WriteMethod(forms[c].existingAccessControl),
                                  forms[c].fileCid, accessRule))
  /\ UNCHANGED <<http, notAccess>>

\* the method the pending submit of client c called
Submitted(c) ==
  LET mine == {n \in 1..Len(acSent) : acSent[n].client = c /\ acSent[n].method # "GET"}
  IN  acSent[Max(mine)].method

\* handleSubmit after the create or update returned: the error path, or the
\* success message and loadExistingAccessControl up to its await
SubmitSettles(c, resp) ==
  /\ forms[c].pc = "submitting"
  /\ LET res == IF Submitted(c) = "PUT" THEN updateAccessControlResult(resp)
                ELSE createAccessControlResult(resp)
     IN  IF ~res.success
           THEN /\ forms' = [forms EXCEPT ![c].error = Text(res.message),
                                          ![c].loading = FALSE, ![c].pc = "ready"]
                /\ acSent' = acSent
           ELSE /\ forms' = [forms EXCEPT
                     ![c].success = Text(IF Submitted(c) = "PUT" THEN "updated"
                                         ELSE "created"),
                     ![c].loadingExisting = TRUE, ![c].pc = "reloading"]
                /\ acSent' = Append(acSent, InfoRequest(c, forms[c].fileCid))
  /\ UNCHANGED <<http, notAccess>>

\* the fields a user can leave the form in
NoField == [set |-> FALSE, v |-> 0]
Field(n) == [set |-> TRUE, v |-> n]
BlankForm ==
  [ conditionType |-> "email", allowedEmails |-> << <<>> >>,
    allowedAddresses |-> << <<>> >>, allowedSuiNS |-> << <<>> >>,
    accessStartTime |-> NoField, accessEndTime |-> NoField,
    maxAccessDuration |-> NoField, maxAccessCount |-> NoField ]
FormSamples ==
  { [BlankForm EXCEPT !.allowedEmails = <<GoodEmail, << >>, <<" ">> >>],
    [BlankForm EXCEPT !.allowedEmails = <<GoodEmail, NoAtEmail>>],
    [BlankForm EXCEPT !.conditionType = "wallet", !.allowedEmails = <<NoAtEmail>>,
                      !.allowedSuiNS = <<GoodSuiNS, << >> >>],
    [BlankForm EXCEPT !.conditionType = "time", !.accessStartTime = Field(2),
                      !.accessEndTime = Field(1)],
    [BlankForm EXCEPT !.conditionType = "time", !.maxAccessDuration = Field(1),
                      !.maxAccessCount = Field(-1)],
    [BlankForm EXCEPT !.conditionType = "hybrid", !.maxAccessDuration = Field(5)] }

\* what the backend answers a GET of the rule with
AccessInfo == JObj(<< <<<<"conditionType">>, JStr(<<"email">>)>> >>)
InfoResponses ==
  { NetworkError, Json(FALSE, JObj(<<ServerMessage>>)), Json(TRUE, JObj(<<>>)),
    Json(TRUE, JObj(<< <<<<"data">>, JNull>> >>)),
    Json(TRUE, JObj(<< <<<<"data">>, AccessInfo>> >>)) }
\* what the backend answers a POST or PUT of a rule with
WriteResponses ==
  { NetworkError, Json(FALSE, JObj(<<>>)), Json(FALSE, JObj(<<ServerMessage>>)),
    Json(TRUE, JNull), Json(TRUE, JObj(<<>>)),
    Json(TRUE, JObj(<< ServerMessage,
                       <<<<"data">>, JObj(<< <<<<"transactionDigest">>,
                                              JStr(<<"0xd1">>)>> >>)>> >>)) }

\* the step is a handleSubmit of client c
SubmitStep(c) == forms'[c].submits = forms[c].submits + 1

\* C21: when validateAccessRule reports the rule handleSubmit built invalid,
\* the handler sends no create and no update request, shows the validation
\* error and leaves loading false
C21_ValidationBeforeNetwork ==
  [][\A c \in Clients :
       (SubmitStep(c) /\ ~validateAccessRule(forms'[c].accessRule).valid) =>
         /\ acSent' = acSent
         /\ forms'[c].error = Text(validateAccessRule(forms'[c].accessRule).error)
         /\ forms'[c].loading = FALSE
         /\ forms'[c].pc = "ready"]_vars
C21_Witness ==
  \E c \in Clients :
    /\ forms[c].submits = 1
    /\ forms[c].accessRule.conditionType = "time"
    /\ forms[c].error = Text([kind |-> "Access start time must be before end time",
                              arg |-> <<>>])
    /\ ~forms[c].loading
    /\ \A n \in 1..Len(acSent) : acSent[n].client = c => acSent[n].method = "GET"

(***************************************************************************)
(* The service methods as functions of what their fetch gave               *)
(***************************************************************************)
\* generateShareLink after its fetch settled
generateShareLinkResult(resp) ==
  IF resp.kind # "json" THEN AcFailure(Unusable(resp))
  ELSE LET data == resp.body
       IN  IF Nullish(data) THEN AcFailure(Words_TypeError)
           ELSE IF ~resp.ok
             THEN AcFailure(MessageOr(data, <<"Failed", "to", "generate", "share", "link">>))
           ELSE [ success |-> TRUE,
                  data |-> JObj(<< <<<<"shareLink">>,
                                     Prop(Prop(data, <<"data">>), <<"shareLink">>)>>,
                                   <<<<"shareId">>,
                                     Prop(Prop(data, <<"data">>), <<"shareId">>)>> >>),
                  message |-> MessageOr(data, <<"Share", "link", "generated",
                                                "successfully">>) ]

\* `await downloadResponse.json().catch(() => ({}))`
ErrorData(resp) == IF resp.kind = "json" THEN resp.body ELSE JObj(<<>>)
\* downloadSharedFile after its fetch settled; a 2xx body is read as a blob
downloadSharedFileResult(resp) ==
  IF resp.kind = "network_error" THEN [success |-> FALSE, error |-> Words_FetchFailed]
  ELSE IF ~resp.ok
    THEN IF Nullish(ErrorData(resp)) THEN [success |-> FALSE, error |-> Words_TypeError]
         ELSE [ success |-> FALSE,
                error |-> MessageOr(ErrorData(resp),
                                    <<"Failed", "to", "download", "shared", "file">>) ]
  ELSE [success |-> TRUE, filename |-> <<"shared-file">>]

HttpMethods ==
  { "getUserFiles", "uploadFile", "clearUserFiles", "deleteFile", "downloadSharedFile",
    "createAccessControl", "updateAccessControl", "getAccessControlInfo",
    "generateShareLink", "validateShareLink" }
\* what each method returns for what its fetch gave
Returned(method, resp) ==
  CASE method = "getUserFiles" -> getUserFilesResult(resp, 0)
    [] method = "uploadFile" -> uploadFileResult(NoEncryptionData, resp)
    [] method = "clearUserFiles" ->
         deleteResult(resp, <<"Failed", "to", "delete", "files">>,
                      <<"Files", "deleted", "successfully">>)
    [] method = "deleteFile" ->
         deleteResult(resp, <<"Failed", "to", "delete", "file">>,
                      <<"File", "deleted", "successfully">>)
    [] method = "downloadSharedFile" -> downloadSharedFileResult(resp)
    [] method = "createAccessControl" -> createAccessControlResult(resp)
    [] method = "updateAccessControl" -> updateAccessControlResult(resp)
    [] method = "getAccessControlInfo" -> getAccessControlInfoResult(resp)
    [] method = "generateShareLink" -> generateShareLinkResult(resp)
    [] method = "validateShareLink" -> validateShareLinkResult(resp)

\* bodies a backend, a proxy or a gateway can answer with
HttpBodies ==
  { JNull, JObj(<<>>), JObj(<<ServerMessage>>), JStr(<<"Bad", "Gateway">>), JNum(0),
    JArr(<<>>), JObj(<< <<<<"message">>, JStr(<<>>)>> >>),
    JObj(<< <<<<"message">>, JNull>> >>),
    JObj(<< <<<<"error">>, JStr(<<"denied">>)>> >>),
    JObj(<< ServerMessage, <<<<"data">>, JObj(<<>>)>> >>) }
HttpResponses ==
  {NetworkError, NotJson(FALSE), NotJson(TRUE)}
    \cup {Json(ok, b) : ok \in BOOLEAN, b \in HttpBodies}

HttpInit ==
  /\ http \in [method : HttpMethods, response : HttpResponses, returned : {NotReturned}]
  /\ forms = [c \in Clients |-> NewForm]
  /\ acSent = <<>>
\* the method runs from the settled fetch to its return
HttpReturn ==
  /\ http.returned = NotReturned
  /\ http' = [http EXCEPT !.returned = Returned(http.method, http.response)]
  /\ UNCHANGED <<forms, acSent, notAccess>>

\* the call has returned and its fetch was rejected or answered non-2xx
HttpFailed ==
  /\ http.returned # NotReturned
  /\ http.response.kind = "network_error" \/ ~http.response.ok
\* a result: a JavaScript object, or a record of the fields the method sets
IsJsValue(res) == DOMAIN res = {"t", "v"}
SuccessOf(res) ==
  IF IsJsValue(res) THEN Prop(res, <<"success">>) = JBool(TRUE) ELSE res.success
\* the text the result carries under the property `name`, <<>> if none
TextUnder(res, name) ==
  IF IsJsValue(res)
    THEN IF Prop(res, <<name>>).t = "str" THEN Prop(res, <<name>>).v ELSE <<>>
  ELSE IF name \in DOMAIN res THEN res[name] ELSE <<>>

\* C22 as stated: after a rejected fetch or a non-2xx answer each of the ten
\* methods returns success:false with a non-empty message
C22_FailureHasMessage ==
  HttpFailed => ~SuccessOf(http.returned) /\ TextUnder(http.returned, "message") # <<>>

\* C22: after a rejected fetch or a non-2xx answer, whatever the body, each
\* of the ten methods returns (it does not throw) success:false with a
\* non-empty text: downloadSharedFile under `error`, the others under `message`
C22_FailureReturnedAsData ==
  HttpFailed =>
    /\ ~SuccessOf(http.returned)
    /\ TextUnder(http.returned,
                 IF http.method = "downloadSharedFile" THEN "error" ELSE "message") # <<>>
C22_Witness ==
  /\ http.method = "generateShareLink"
  /\ http.response = Json(FALSE, JNull)
  /\ http.returned = AcFailure(Words_TypeError)
C22_WitnessDownload ==
  /\ http.method = "downloadSharedFile"
  /\ http.response = Json(FALSE, JObj(<<ServerMessage>>))
  /\ http.returned = [success |-> FALSE, error |-> <<"server", "message">>]

\* C24: two decryptFile calls on the same envelope return the same success
\* flag and the same decryptedData whatever secretKey each was given
C24_KeyIndependent ==
  \A c1, c2 \in Callers :
    (/\ pc[c1] = "done" /\ op[c1] = "decrypt"
     /\ pc[c2] = "done" /\ op[c2] = "decrypt"
     /\ input[c1].data = input[c2].data) =>
      /\ result[c1].success = result[c2].success
      /\ result[c1].data = result[c2].data
\* an envelope produced for one key, decrypted with another key and with none
C24_Witness ==
  /\ pc[1] = "done" /\ op[1] = "decrypt"
  /\ pc[2] = "done" /\ op[2] = "decrypt"
  /\ input[1].data = input[2].data
  /\ input[1].key = ForeignKey /\ input[2].key = <<>>
  /\ result[1].success /\ result[1].data = <<7>>
  /\ result[2].data = <<7>>

\* the publicKey an envelope carries
EmbeddedPublicKey(envelope) == Member(JsonParse(TextDecode(envelope)).val, Chars_publicKey).v
\* the text after the prefix seal_public_, put after the prefix seal_secret_
DerivedSecret(envelope) ==
  LET publicKey == EmbeddedPublicKey(envelope)
  IN  Chars_seal_secret_ \o SubSeq(publicKey, Len(Chars_seal_public_) + 1, Len(publicKey))

\* C30: the secretKey an encryptFile run returns is not the text computed
\* from the envelope it returns for upload (its embedded publicKey with the
\* prefix exchanged)
C30_PayloadHidesSecret ==
  \A c \in Callers :
    (pc[c] = "done" /\ op[c] = "encrypt" /\ result[c].success) =>
      result[c].secretKey # DerivedSecret(result[c].data)
\* every run's secretKey is that text, so equal envelopes give equal keys
SecretFollowsFromEnvelope ==
  \A c \in Callers :
    (pc[c] = "done" /\ op[c] = "encrypt" /\ result[c].success) =>
      result[c].secretKey = DerivedSecret(result[c].data)

\* the step is completeAuthentication returning from a rejected fetch or a
\* non-2xx answer
FailedCompleteStep ==
  /\ "completeAuthentication" \in pending
  /\ "completeAuthentication" \notin pending'
  /\ lastOp' = "completeAuthentication failed"

\* C26: a completeAuthentication whose fetch is rejected or answered non-2xx
\* leaves the service's token and user, localStorage (authToken, authUser),
\* sessionStorage (zkLoginParams) and the AuthContext as they were
C26_FailedCompleteChangesNothing ==
  [][FailedCompleteStep =>
       /\ authService' = authService
       /\ localStorage' = localStorage
       /\ sessionStorage' = sessionStorage
       /\ token' = token /\ user' = user /\ useTestMode' = useTestMode]_vars
\* a failed callback during a session that holds a token and stored parameters
C26_Witness ==
  /\ lastOp = "completeAuthentication failed"
  /\ authService.token = "jwt"
  /\ localStorage.authToken = "jwt"
  /\ localStorage.authUser.set
  /\ sessionStorage.zkLoginParams.set

\* the accounts of the backend, and the zkLoginParams item storeUserData
\* writes for an answer that carries the parameters of account u
Accounts == {User_Full, User_Second}
ParamsItemOf(u) == StoreSession(EmptySession, u).zkLoginParams
\* the account the authUser item in localStorage is the profile of
StoredAccount ==
  CHOOSE u \in Accounts :
    Prop(u, <<"zkLoginAddress">>) = Prop(localStorage.authUser.v, <<"zkLoginAddress">>)

\* C28: when localStorage holds authUser and sessionStorage holds
\* zkLoginParams, the parameters are those of the account authUser is the
\* profile of
C28_OneUserInStorage ==
  (localStorage.authUser.set /\ sessionStorage.zkLoginParams.set) =>
    sessionStorage.zkLoginParams = ParamsItemOf(StoredAccount)
\* the profile of the second account next to the first account's parameters
C28_MixedSession ==
  /\ Prop(localStorage.authUser.v, <<"zkLoginAddress">>) = JStr(<<"0", "x", "2">>)
  /\ sessionStorage.zkLoginParams = ParamsItemOf(User_Full)
  /\ authService.user = User_Second
  /\ lastOp = "completeAuthentication"

\* C29: every downloadSharedFile request follows a validateShareLink result
\* that reported accessGranted = true
C29_DownloadOnlyWhenGranted ==
  \A n \in 1..Len(downloads) : downloads[n].validated => downloads[n].accessGranted
\* the last validation reported accessGranted = false and the Load File
\* button sent the download request
C29_DeniedYetRequested ==
  /\ validated /\ ~granted
  /\ Len(downloads) = 1
  /\ downloads[1].source = "button"
  /\ ~downloads[1].accessGranted

\* the step hands a create or an update of client c to fetch
WriteStep(c) ==
  /\ Len(acSent') = Len(acSent) + 1
  /\ acSent'[Len(acSent')].client = c
  /\ acSent'[Len(acSent')].method # "GET"
\* request n is `method` for file cid by client c
IsRequest(n, c, method, cid) ==
  acSent[n].client = c /\ acSent[n].method = method /\ acSent[n].fileCid = cid

\* C23: a submit sends PUT exactly when the existingAccessControl that the
\* client's last getAccessControlInfo left is set, else POST, and only a
\* returning getAccessControlInfo changes existingAccessControl; so two
\* clients that both loaded "no rule" for one file both send a create
C23_CheckThenAct ==
  [][\A c \in Clients :
       /\ WriteStep(c) =>
            acSent'[Len(acSent')].method =
              (IF forms[c].existingAccessControl = JNull THEN "POST" ELSE "PUT")
       /\ forms'[c].existingAccessControl # forms[c].existingAccessControl =>
            /\ forms[c].pc \in {"loading", "reloading"}
            /\ Len(acSent') = Len(acSent)]_vars
\* both clients loaded "no rule" for cidA, client 1 created one and was told
\* so, and client 2 then sent its own create
C23_Witness ==
  /\ Len(acSent) >= 4
  /\ IsRequest(1, 1, "GET", "cidA")
  /\ IsRequest(2, 2, "GET", "cidA")
  /\ IsRequest(3, 1, "POST", "cidA")
  /\ forms[1].success = Text("created")
  /\ forms[2].existingAccessControl = JNull
  /\ IsRequest(Len(acSent), 2, "POST", "cidA")
  /\ forms[2].pc = "submitting"

(***************************************************************************)
(* Specifications                                                          *)
(***************************************************************************)
InitRule == RuleInit /\ BulkIdle /\ SealInit /\ FsIdle /\ UploadIdle /\ AuthIdle /\ ViewerIdle /\ AccessIdle
NextRule == Validate
SpecRule == InitRule /\ [][NextRule]_vars

InitBulk == BulkInit /\ RuleIdle /\ SealInit /\ FsIdle /\ UploadIdle /\ AuthIdle /\ ViewerIdle /\ AccessIdle
NextBulk == ParseBulk
SpecBulk == InitBulk /\ [][NextBulk]_vars

\* one caller encrypts a file and decrypts what it got
InitRoundTrip == SealInit /\ RuleIdle /\ BulkIdle /\ FsIdle /\ UploadIdle /\ AuthIdle /\ ViewerIdle /\ AccessIdle
NextRoundTrip ==
  \/ \E bytes \in Files(MaxLen) :
       pc[1] = "idle" /\ CallEncrypt(1, bytes) /\ UNCHANGED notSeal
  \/ \E loaded \in BOOLEAN : ImportSettles(loaded) /\ UNCHANGED notSeal
  \/ AfterInit(1) /\ UNCHANGED notSeal
  \/ FileRead(1, TRUE) /\ UNCHANGED notSeal
  \/ \E keyId \in KeyIds, now \in Timestamps : Encrypt(1, keyId, now) /\ UNCHANGED notSeal
  \/ CallDecryptOwn(1) /\ UNCHANGED notSeal
  \/ Decrypt(1) /\ UNCHANGED notSeal
SpecRoundTrip == InitRoundTrip /\ [][NextRoundTrip]_vars

\* several callers use the adapter at the same time
InitSeal == SealInit /\ RuleIdle /\ BulkIdle /\ FsIdle /\ UploadIdle /\ AuthIdle /\ ViewerIdle /\ AccessIdle
NextSeal ==
  \E c \in Callers :
    \/ CallInitialize(c) /\ UNCHANGED notSeal
    \/ \E bytes \in SmallFiles : CallEncrypt(c, bytes) /\ UNCHANGED notSeal
    \/ \E data \in Envelopes, key \in DecryptKeys :
         CallDecrypt(c, data, key, FALSE) /\ UNCHANGED notSeal
    \/ CallDecryptOwn(c) /\ UNCHANGED notSeal
    \/ \E loaded \in BOOLEAN : ImportSettles(loaded) /\ UNCHANGED notSeal
    \/ AfterInit(c) /\ UNCHANGED notSeal
    \/ \E readable \in BOOLEAN : FileRead(c, readable) /\ UNCHANGED notSeal
    \/ Encrypt(c, <<"k", "1">>, 10) /\ UNCHANGED notSeal
    \/ Decrypt(c) /\ UNCHANGED notSeal
SpecSeal == InitSeal /\ [][NextSeal]_vars

\* calls of the file service
InitFiles == FsIdle /\ RuleIdle /\ BulkIdle /\ SealInit /\ UploadIdle /\ AuthIdle /\ ViewerIdle /\ AccessIdle
NextFiles ==
  \/ \E tok \in Tokens, testMode \in BOOLEAN : CallGetUserFiles(tok, testMode)
  \/ \E tok \in Tokens, testMode \in BOOLEAN : CallClearUserFiles(tok, testMode)
  \/ \E cid \in Cids, tok \in Tokens, testMode \in BOOLEAN : CallDeleteFile(cid, tok, testMode)
  \/ \E resp \in (IF fsCall.op = "getUserFiles" THEN ListResponses ELSE DeleteResponses),
        now \in Timestamps : FetchSettles(resp, now)
SpecFiles == InitFiles /\ [][NextFiles]_vars

\* the upload page: the encryption hook, the attached files and upload runs
InitUpload == UploadInit /\ SealInit /\ RuleIdle /\ BulkIdle /\ FsIdle /\ AuthIdle /\ ViewerIdle /\ AccessIdle
NextUpload ==
  \/ HookInitialize
  \/ \E loaded \in BOOLEAN : ImportSettles(loaded) /\ UNCHANGED notSeal
  \/ AfterInit(1) /\ UNCHANGED notSeal
  \/ HookInitialized
  \/ \E list \in FileLists, now \in (clock + 1)..MaxClock : AddFiles(list, now)
  \/ \E id \in Ids : RemoveFile(id)
  \/ StartUpload
  \/ \E readable \in BOOLEAN : FileRead(1, readable) /\ UNCHANGED notSeal
  \/ Encrypt(1, <<"k", "1">>, 10) /\ UNCHANGED notSeal
  \/ EncryptReturns
  \/ \E resp \in UploadResponses : UploadSettles(resp)
  \/ UploadRejected
SpecUpload == InitUpload /\ [][NextUpload]_vars

\* the session: AuthProvider on the stores an earlier visit left, login through
\* completeAuthentication, token verification, logout and the test-mode switch
InitAuth == AuthInit /\ UploadIdle /\ SealInit /\ RuleIdle /\ BulkIdle /\ FsIdle /\ ViewerIdle /\ AccessIdle
NextAuth ==
  \/ Mount
  \/ \E resp \in AuthResponses : VerifySettles(resp)
  \/ CompleteCall
  \/ \E resp \in AuthResponses, redirect \in BOOLEAN : CompleteSettles(resp, redirect)
  \/ Logout
  \/ \E useTest \in BOOLEAN : SetUseTestMode(useTest)
SpecAuth == InitAuth /\ [][NextAuth]_vars

\* the page of a share link: AuthProvider loads the session, the viewer
\* validates the link and loads the file
InitViewer == AuthInit /\ UploadIdle /\ SealInit /\ RuleIdle /\ BulkIdle /\ FsIdle /\ ViewerIdle /\ AccessIdle
NextViewer ==
  \/ Mount
  \/ \E resp \in AuthResponses : VerifySettles(resp)
  \/ ViewerMount
  \/ ViewerEffect
  \/ \E k \in 1..MaxFlows, resp \in ShareResponses : ValidateSettles(k, resp)
  \/ LoadFileClick
  \/ \E k \in 1..MaxFlows, ok \in BOOLEAN, filename \in Filenames :
       DownloadSettles(k, ok, filename)
SpecViewer == InitViewer /\ [][NextViewer]_vars
\* the requests are answered and the effect runs; the Load File button is
\* the user's to press or not
SpecViewerLive ==
  /\ SpecViewer
  /\ WF_vars(ViewerEffect)
  /\ WF_vars(\E resp \in AuthResponses : VerifySettles(resp))
  /\ WF_vars(\E k \in 1..MaxFlows, resp \in ShareResponses : ValidateSettles(k, resp))
  /\ WF_vars(\E k \in 1..MaxFlows, ok \in BOOLEAN, filename \in Filenames :
               DownloadSettles(k, ok, filename))

\* the access-control form of each client and the backend's answers
InitAccess ==
  /\ AccessIdle /\ UploadInit /\ user = TokenSet(token) /\ (useTestMode \/ user)
  /\ SealInit /\ RuleIdle /\ BulkIdle /\ FsIdle /\ AuthIdle /\ ViewerIdle
NextAccess ==
  \/ \E c \in Clients, cid \in FileCids : FormMount(c, cid)
  \/ \E c \in Clients, resp \in InfoResponses : LoadSettles(c, resp)
  \/ \E c \in Clients, f \in FormSamples : HandleSubmit(c, f)
  \/ \E c \in Clients, resp \in WriteResponses : SubmitSettles(c, resp)
SpecAccess == InitAccess /\ [][NextAccess]_vars

\* each service method on each answer of its fetch
InitHttp ==
  /\ HttpInit /\ UploadIdle /\ SealInit /\ RuleIdle /\ BulkIdle /\ FsIdle /\ AuthIdle
  /\ ViewerIdle
NextHttp == HttpReturn
SpecHttp == InitHttp /\ [][NextHttp]_vars

\* a step that settles what a run awaits: the import, the isReady test, the
\* file read, the encryption, or the upload's fetch
RunStep ==
  \/ \E loaded \in BOOLEAN : ImportSettles(loaded) /\ UNCHANGED notSeal
  \/ AfterInit(1) /\ UNCHANGED notSeal
  \/ \E readable \in BOOLEAN : FileRead(1, readable) /\ UNCHANGED notSeal
  \/ Encrypt(1, <<"k", "1">>, 10) /\ UNCHANGED notSeal
  \/ EncryptReturns
  \/ \E resp \in UploadResponses : UploadSettles(resp)
  \/ UploadRejected
\* the same with every awaited call settling: a run is one sequence of awaits,
\* so at each moment of it exactly one of these steps is the one it waits for
\* from a session that is logged in, or logged out, outside test mode
InitUploadLive == InitUpload /\ ~useTestMode /\ (user <=> TokenSet(token))
SpecUploadLive == InitUploadLive /\ [][NextUpload]_vars /\ WF_vars(RunStep)

====
